---------------------------- MODULE Spec2Model ----------------------------
(***************************************************************************)
(* A state-machine model of script.js: the chess rules engine (move        *)
(* generation, legality filter, attack detector, move executor), the       *)
(* promotion dialogue, the input handlers, the delayed computer move and   *)
(* the Stockfish oracle boundary.                                          *)
(*                                                                         *)
(* A piece is the pair <<colour, type>> ("wp" in the source is             *)
(* <<"w","p">>), so piece[1] is the source's piece[0] and piece[2] is the  *)
(* source's piece[1]; JavaScript's null is the empty tuple.  Rows and      *)
(* columns are 0..7 as in the source, row 0 being the black back rank.     *)
(***************************************************************************)
EXTENDS Integers, Sequences, FiniteSets, TLC

null == <<>>

\* A promotionChoice / coords.promotion of null: promotion letters are strings.
noChoice == "null"

Rows == 0..7

Cols == 0..7

Sq(r, c) == [r |-> r, c |-> c]

\* addMove (script.js 376-378): the move object pushed by the generator.
\* The source's special = null is the string "none".
addMove(r, c, tr, tc, special) ==
  [from |-> Sq(r, c), to |-> Sq(tr, tc), special |-> special]

\* A grid of seven columns; TwentyMovesEach must fail with it in place of
\* isValidSquare.
SevenColumns(r, c) == r >= 0 /\ r < 8 /\ c >= 0 /\ c < 7

isValidSquare(r, c) == r >= 0 /\ r < 8 /\ c >= 0 /\ c < 8

\* color[0] of "white" / "black"
Prefix(color) == IF color = "white" THEN "w" ELSE "b"

\* turn === "white" ? "black" : "white"
Other(color) == IF color = "white" THEN "black" ELSE "white"

\* canCastle reads castlingRights[color === "w" ? "white" : "black"][side]
canCastle(CR, color, side) ==
  CR[IF color = "w" THEN "white" ELSE "black"][side]

knightOffsets ==
  << <<-2, -1>>, <<-2, 1>>, <<-1, -2>>, <<-1, 2>>,
     <<1, -2>>, <<1, 2>>, <<2, -1>>, <<2, 1>> >>

\* the king loop: dr = -1..1, dc = -1..1, skipping (0,0), in loop order
kingOffsets ==
  << <<-1, -1>>, <<-1, 0>>, <<-1, 1>>, <<0, -1>>,
     <<0, 1>>, <<1, -1>>, <<1, 0>>, <<1, 1>> >>

rookDirs == << <<0, 1>>, <<0, -1>>, <<1, 0>>, <<-1, 0>> >>

bishopDirs == << <<1, 1>>, <<1, -1>>, <<-1, 1>>, <<-1, -1>> >>

\* One sliding ray of getPseudoLegalMoves (457-470), from (tr,tc) onward.
RECURSIVE SlideRay(_, _, _, _, _, _, _, _)
SlideRay(B, r, c, tr, tc, dr, dc, enemyColor) ==
  IF ~isValidSquare(tr, tc) THEN <<>>
  ELSE IF B[tr][tc] = null
       THEN <<addMove(r, c, tr, tc, "none")>>
              \o SlideRay(B, r, c, tr + dr, tc + dc, dr, dc, enemyColor)
       ELSE IF B[tr][tc][1] = enemyColor
            THEN <<addMove(r, c, tr, tc, "none")>>
            ELSE <<>>

\* The moves of a list of fixed offsets (knight, king steps) in list order.
RECURSIVE StepMoves(_, _, _, _, _, _)
StepMoves(B, r, c, offsets, i, enemyColor) ==
  IF i > Len(offsets) THEN <<>>
  ELSE LET tr == r + offsets[i][1]
           tc == c + offsets[i][2]
           here == IF isValidSquare(tr, tc)
                      /\ (B[tr][tc] = null \/ B[tr][tc][1] = enemyColor)
                   THEN <<addMove(r, c, tr, tc, "none")>>
                   ELSE <<>>
       IN here \o StepMoves(B, r, c, offsets, i + 1, enemyColor)

RECURSIVE SlideMoves(_, _, _, _, _, _)
SlideMoves(B, r, c, dirs, i, enemyColor) ==
  IF i > Len(dirs) THEN <<>>
  ELSE SlideRay(B, r, c, r + dirs[i][1], c + dirs[i][2],
                dirs[i][1], dirs[i][2], enemyColor)
         \o SlideMoves(B, r, c, dirs, i + 1, enemyColor)

\* The pawn branch of getPseudoLegalMoves (380-407).
PawnMoves(B, EP, r, c, color, enemyColor) ==
  LET direction == IF color = "w" THEN -1 ELSE 1
      forward ==
        IF isValidSquare(r + direction, c) /\ B[r + direction][c] = null
        THEN <<addMove(r, c, r + direction, c, "none")>>
               \o (IF ((color = "w" /\ r = 6) \/ (color = "b" /\ r = 1))
                      /\ isValidSquare(r + direction * 2, c)
                      /\ B[r + direction * 2][c] = null
                   THEN <<addMove(r, c, r + direction * 2, c, "double-push")>>
                   ELSE <<>>)
        ELSE <<>>
      diag(tr, tc) ==
        IF isValidSquare(tr, tc)
        THEN (IF B[tr][tc] # null /\ B[tr][tc][1] = enemyColor
              THEN <<addMove(r, c, tr, tc, "none")>> ELSE <<>>)
               \o (IF EP # null /\ tr = EP.r /\ tc = EP.c
                   THEN <<addMove(r, c, tr, tc, "enpassant")>> ELSE <<>>)
        ELSE <<>>
  IN forward \o diag(r + direction, c - 1) \o diag(r + direction, c + 1)

\* A read of board[r][c] that may fall outside the grid: JavaScript gives
\* undefined (falsy) for a column outside 0..7 of an existing row.
Falsy(B, r, c) == ~isValidSquare(r, c) \/ B[r][c] = null

\* The castling candidates of the king branch (440-448).
CastleMoves(B, CR, r, c, color) ==
  (IF canCastle(CR, color, "kingSide")
      /\ Falsy(B, r, c + 1) /\ Falsy(B, r, c + 2)
   THEN <<addMove(r, c, r, c + 2, "castle-ks")>> ELSE <<>>)
  \o
  (IF canCastle(CR, color, "queenSide")
      /\ Falsy(B, r, c - 1) /\ Falsy(B, r, c - 2) /\ Falsy(B, r, c - 3)
   THEN <<addMove(r, c, r, c - 2, "castle-qs")>> ELSE <<>>)

\* getPseudoLegalMoves(r, c, piece), with the globals it reads (board,
\* castlingRights, enPassantTarget) as the parameters B, CR, EP.
getPseudoLegalMoves(B, CR, EP, r, c, piece) ==
  LET color == piece[1]
      type == piece[2]
      enemyColor == IF color = "w" THEN "b" ELSE "w"
  IN CASE type = "p" -> PawnMoves(B, EP, r, c, color, enemyColor)
       [] type = "n" -> StepMoves(B, r, c, knightOffsets, 1, enemyColor)
       [] type = "k" -> StepMoves(B, r, c, kingOffsets, 1, enemyColor)
                          \o CastleMoves(B, CR, r, c, color)
       [] type = "r" -> SlideMoves(B, r, c, rookDirs, 1, enemyColor)
       [] type = "b" -> SlideMoves(B, r, c, bishopDirs, 1, enemyColor)
       [] type = "q" ->
            SlideMoves(B, r, c, rookDirs \o bishopDirs, 1, enemyColor)
       [] OTHER -> <<>>

\* findKing: the first square in row-major order holding color[0] + "k",
\* and {r: 0, c: 0} when there is none.
findKing(boardState, color) ==
  LET k == <<Prefix(color), "k">>
      at == {i \in 0..63 : boardState[i \div 8][i % 8] = k}
  IN IF at = {} THEN Sq(0, 0)
     ELSE LET i == CHOOSE j \in at : \A m \in at : j <= m
          IN Sq(i \div 8, i % 8)

\* The first occupied square of a ray of isSquareAttacked (588-606),
\* or null when the ray leaves the board.
RECURSIVE FirstOnRay(_, _, _, _, _)
FirstOnRay(boardState, tr, tc, dr, dc) ==
  IF ~isValidSquare(tr, tc) THEN null
  ELSE IF boardState[tr][tc] # null THEN boardState[tr][tc]
       ELSE FirstOnRay(boardState, tr + dr, tc + dc, dr, dc)

isSquareAttacked(r, c, defendingColor, boardState) ==
  LET enemyPrefix == IF defendingColor = "white" THEN "b" ELSE "w"
      attackRow == IF defendingColor = "white" THEN r - 1 ELSE r + 1
      at(rr, cc, type) ==
        isValidSquare(rr, cc) /\ boardState[rr][cc] = <<enemyPrefix, type>>
      ray(i, dirs, slider) ==
        LET p == FirstOnRay(boardState, r + dirs[i][1], c + dirs[i][2],
                            dirs[i][1], dirs[i][2])
        IN p # null /\ p[1] = enemyPrefix /\ (p[2] = "q" \/ p[2] = slider)
  IN \/ at(attackRow, c - 1, "p")
     \/ at(attackRow, c + 1, "p")
     \/ \E i \in 1..8 :
          at(r + knightOffsets[i][1], c + knightOffsets[i][2], "n")
     \/ \E i \in 1..4 : ray(i, rookDirs, "r")
     \/ \E i \in 1..4 : ray(i, bishopDirs, "b")
     \/ \E i \in 1..8 :
          at(r + kingOffsets[i][1], c + kingOffsets[i][2], "k")

\* Castling tests that never object; CastleNeverThroughCheck must fail with
\* them in place of CastleThroughCheck.
NeverThroughCheck(B, move, color) == FALSE

\* The castling tests of isMoveSafe (519-528): the king's square or the
\* square beside it, on the side of the castle, is attacked on the board
\* before the move.
CastleThroughCheck(B, move, color) ==
  \/ /\ move.special = "castle-ks"
     /\ \/ isSquareAttacked(move.from.r, move.from.c, color, B)
        \/ isSquareAttacked(move.from.r, move.from.c + 1, color, B)
  \/ /\ move.special = "castle-qs"
     /\ \/ isSquareAttacked(move.from.r, move.from.c, color, B)
        \/ isSquareAttacked(move.from.r, move.from.c - 1, color, B)

\* tempBoard of isMoveSafe (505-512): the piece relocated, the en-passant
\* victim removed; neither the castling rook nor a promotion is applied.
TempBoard(B, move) ==
  [[(IF move.special = "enpassant"
     THEN [B EXCEPT ![move.from.r][move.to.c] = null] ELSE B)
      EXCEPT ![move.to.r][move.to.c] = B[move.from.r][move.from.c]]
     EXCEPT ![move.from.r][move.from.c] = null]

\* The king's square isMoveSafe tests (514-517, 530): the destination when
\* the king itself moves, else what findKing finds on tempBoard.
KingSquare(B, move, color) ==
  IF B[move.from.r][move.from.c][2] = "k" THEN move.to
  ELSE findKing(TempBoard(B, move), color)

\* The king-safety test of isMoveSafe (530) on the square k.
KingSafeAt(B, move, color, k) ==
  ~isSquareAttacked(k.r, k.c, color, TempBoard(B, move))

\* A filter that lets every pseudo-legal move through; KingSafeAfterLegalMove
\* must fail with it in place of isMoveSafe.
AcceptEveryMove(B, move, color) == TRUE

\* isMoveSafe(move, color), reading the global board as B.
isMoveSafe(B, move, color) ==
  /\ ~CastleThroughCheck(B, move, color)
  /\ KingSafeAt(B, move, color, KingSquare(B, move, color))

\* The legal moves of the pieces of `color` on square i and on the squares
\* after it in its row: the inner loop of getLegalMoves (and of minimax,
\* 1030-1042).
RECURSIVE LegalFrom(_, _, _, _, _)
LegalFrom(B, CR, EP, color, i) ==
  IF i > 63 THEN <<>>
  ELSE LET r == i \div 8
           c == i % 8
           piece == B[r][c]
           here == IF piece # null /\ piece[1] = Prefix(color)
                   THEN SelectSeq(getPseudoLegalMoves(B, CR, EP, r, c, piece),
                                  LAMBDA move : isMoveSafe(B, move, color))
                   ELSE <<>>
       IN IF c = 7 THEN here
          ELSE here \o LegalFrom(B, CR, EP, color, i + 1)

\* The legal moves of the pieces of `color` on row r and the rows after it:
\* the outer loop.
RECURSIVE LegalRows(_, _, _, _, _)
LegalRows(B, CR, EP, color, r) ==
  IF r > 7 THEN <<>>
  ELSE LegalFrom(B, CR, EP, color, 8 * r)
         \o LegalRows(B, CR, EP, color, r + 1)

\* getLegalMoves(color) on the position (B, CR, EP).
getLegalMoves(B, CR, EP, color) == LegalRows(B, CR, EP, color, 0)


(***************************************************************************)
(* The evaluator and the search (script.js 906-1166).                      *)
(***************************************************************************)
PIECE_VALUES == [p |-> 100, n |-> 320, b |-> 330, r |-> 500, q |-> 900, k |-> 20000]

PST ==
  [p |-> << <<0, 0, 0, 0, 0, 0, 0, 0>>,
            <<50, 50, 50, 50, 50, 50, 50, 50>>,
            <<10, 10, 20, 30, 30, 20, 10, 10>>,
            <<5, 5, 10, 25, 25, 10, 5, 5>>,
            <<0, 0, 0, 20, 20, 0, 0, 0>>,
            <<5, -5, -10, 0, 0, -10, -5, 5>>,
            <<5, 10, 10, -20, -20, 10, 10, 5>>,
            <<0, 0, 0, 0, 0, 0, 0, 0>> >>,
   n |-> << <<-50, -40, -30, -30, -30, -30, -40, -50>>,
            <<-40, -20, 0, 0, 0, 0, -20, -40>>,
            <<-30, 0, 10, 15, 15, 10, 0, -30>>,
            <<-30, 5, 15, 20, 20, 15, 5, -30>>,
            <<-30, 0, 15, 20, 20, 15, 0, -30>>,
            <<-30, 5, 10, 15, 15, 10, 5, -30>>,
            <<-40, -20, 0, 5, 5, 0, -20, -40>>,
            <<-50, -40, -30, -30, -30, -30, -40, -50>> >>,
   b |-> << <<-20, -10, -10, -10, -10, -10, -10, -20>>,
            <<-10, 0, 0, 0, 0, 0, 0, -10>>,
            <<-10, 0, 10, 10, 10, 10, 0, -10>>,
            <<-10, 5, 5, 10, 10, 5, 5, -10>>,
            <<-10, 0, 5, 10, 10, 5, 0, -10>>,
            <<-10, 10, 10, 10, 10, 10, 10, -10>>,
            <<-10, 5, 0, 0, 0, 0, 5, -10>>,
            <<-20, -10, -10, -10, -10, -10, -10, -20>> >>,
   r |-> << <<0, 0, 0, 0, 0, 0, 0, 0>>,
            <<5, 10, 10, 10, 10, 10, 10, 5>>,
            <<-5, 0, 0, 0, 0, 0, 0, -5>>,
            <<-5, 0, 0, 0, 0, 0, 0, -5>>,
            <<-5, 0, 0, 0, 0, 0, 0, -5>>,
            <<-5, 0, 0, 0, 0, 0, 0, -5>>,
            <<-5, 0, 0, 0, 0, 0, 0, -5>>,
            <<0, 0, 0, 5, 5, 0, 0, 0>> >>,
   q |-> << <<-20, -10, -10, -5, -5, -10, -10, -20>>,
            <<-10, 0, 0, 0, 0, 0, 0, -10>>,
            <<-10, 0, 5, 5, 5, 5, 0, -10>>,
            <<-5, 0, 5, 5, 5, 5, 0, -5>>,
            <<0, 0, 5, 5, 5, 5, 0, -5>>,
            <<-10, 5, 5, 5, 5, 5, 0, -10>>,
            <<-10, 0, 5, 0, 0, 0, 0, -10>>,
            <<-20, -10, -10, -5, -5, -10, -10, -20>> >>,
   k |-> << <<-30, -40, -40, -50, -50, -40, -40, -30>>,
            <<-30, -40, -40, -50, -50, -40, -40, -30>>,
            <<-30, -40, -40, -50, -50, -40, -40, -30>>,
            <<-30, -40, -40, -50, -50, -40, -40, -30>>,
            <<-20, -30, -30, -40, -40, -30, -30, -20>>,
            <<-10, -20, -20, -20, -20, -20, -20, -10>>,
            <<20, 20, 0, 0, 0, 0, 20, 20>>,
            <<20, 30, 10, 0, 0, 10, 30, 20>> >>]

\* evaluateBoard: black pieces add value + table, white pieces subtract it;
\* the table row is r for black and 7 - r for white (tables are 1-indexed
\* sequences here, hence the + 1).
\* EvalFrom sums square i and the squares after it in its row.
RECURSIVE EvalFrom(_, _)
EvalFrom(boardState, i) ==
  IF i > 63 THEN 0
  ELSE LET r == i \div 8
           c == i % 8
           piece == boardState[r][c]
           here ==
             IF piece = null THEN 0
             ELSE LET val == PIECE_VALUES[piece[2]]
                      pstVal == IF piece[1] = "b"
                                THEN PST[piece[2]][r + 1][c + 1]
                                ELSE PST[piece[2]][(7 - r) + 1][c + 1]
                  IN IF piece[1] = "b" THEN val + pstVal ELSE 0 - (val + pstVal)
       IN IF c = 7 THEN here ELSE here + EvalFrom(boardState, i + 1)

\* EvalRows sums row r and the rows after it.
RECURSIVE EvalRows(_, _)
EvalRows(boardState, r) ==
  IF r > 7 THEN 0
  ELSE EvalFrom(boardState, 8 * r) + EvalRows(boardState, r + 1)

evaluateBoard(boardState) == EvalRows(boardState, 0)

\* Number.POSITIVE_INFINITY as the alpha/beta sentinel: larger than any score.
Infinity == 1000000000

Max(a, b) == IF a >= b THEN a ELSE b

Min(a, b) == IF a <= b THEN a ELSE b

\* The simulation of one move on a copy of the grid, as minimax (1060-1095),
\* fallbackAIMove (1223-1244) and getHint (206-226) all write it: relocate,
\* en-passant victim, castling rook, auto-queen.
SimEnPassant(b, move) ==
  IF move.special = "enpassant"
  THEN [b EXCEPT ![move.from.r][move.to.c] = null] ELSE b

SimCastle(b, move) ==
  CASE move.special = "castle-ks" ->
         [[b EXCEPT ![move.from.r][5] = b[move.from.r][7]]
            EXCEPT ![move.from.r][7] = null]
    [] move.special = "castle-qs" ->
         [[b EXCEPT ![move.from.r][3] = b[move.from.r][0]]
            EXCEPT ![move.from.r][0] = null]
    [] OTHER -> b

SimQueen(b, move, fromPiece) ==
  IF fromPiece[2] = "p" /\ (move.to.r = 0 \/ move.to.r = 7)
  THEN [b EXCEPT ![move.to.r][move.to.c] = <<fromPiece[1], "q">>]
  ELSE b

SimBoard(boardState, move) ==
  SimQueen(
    SimCastle(
      SimEnPassant(
        [[boardState EXCEPT ![move.to.r][move.to.c] =
                               boardState[move.from.r][move.from.c]]
           EXCEPT ![move.from.r][move.from.c] = null],
        move),
      move),
    move, boardState[move.from.r][move.from.c])

\* newEP of a simulated move
SimEP(move) ==
  IF move.special = "double-push"
  THEN Sq((move.from.r + move.to.r) \div 2, move.from.c)
  ELSE null

\* newCR inside minimax (1081-1090): the revocation rule keyed by the
\* colour to act at this node.
SimCR(castleR, boardState, move, color) ==
  LET fromPiece == boardState[move.from.r][move.from.c]
      c1 == IF fromPiece[2] = "k"
            THEN [castleR EXCEPT ![color] =
                    [kingSide |-> FALSE, queenSide |-> FALSE]]
            ELSE castleR
      c2 == IF fromPiece[2] = "r" /\ move.from.c = 0
            THEN [c1 EXCEPT ![color].queenSide = FALSE] ELSE c1
  IN IF fromPiece[2] = "r" /\ move.from.c = 7
     THEN [c2 EXCEPT ![color].kingSide = FALSE] ELSE c2

\* The score of a node whose side to act has no safe move and whose king is
\* attacked (1052): the maximizing side is black.
SlowerMateFirst(isMaximizing, depth) ==
  IF isMaximizing THEN -99999 - (3 - depth) ELSE 99999 + (3 - depth)

MateScore(isMaximizing, depth) ==
  IF isMaximizing THEN -99999 + (3 - depth) ELSE 99999 - (3 - depth)

RECURSIVE minimax(_, _, _, _, _, _, _, _)
RECURSIVE MaxLoop(_, _, _, _, _, _, _, _, _, _)
RECURSIVE MinLoop(_, _, _, _, _, _, _, _, _, _)

\* The rest of one round of the maximizing loop once the child's score is
\* known (1107-1110): maxEval and alpha are raised, beta <= alpha breaks.
MaxStep(boardState, depth, alpha, beta, color, castleR, moves, i, maxEval, evalScore) ==
  MaxLoop(boardState, depth, Max(alpha, evalScore), beta, color, castleR,
          moves, i + 1, Max(maxEval, evalScore), beta <= Max(alpha, evalScore))

\* The maximizing loop (1058-1111) from move i on; maxEval so far.
MaxLoop(boardState, depth, alpha, beta, color, castleR, moves, i, maxEval, cut) ==
  IF i > Len(moves) \/ cut THEN maxEval
  ELSE MaxStep(boardState, depth, alpha, beta, color, castleR, moves, i,
               maxEval,
               minimax(SimBoard(boardState, moves[i]), depth - 1, alpha, beta,
                       FALSE, Other(color),
                       SimCR(castleR, boardState, moves[i], color),
                       SimEP(moves[i])))

\* The rest of one round of the minimizing loop (1160-1163).
MinStep(boardState, depth, alpha, beta, color, castleR, moves, i, minEval, evalScore) ==
  MinLoop(boardState, depth, alpha, Min(beta, evalScore), color, castleR,
          moves, i + 1, Min(minEval, evalScore), Min(beta, evalScore) <= alpha)

\* The minimizing loop (1113-1164) from move i on; minEval so far.
MinLoop(boardState, depth, alpha, beta, color, castleR, moves, i, minEval, cut) ==
  IF i > Len(moves) \/ cut THEN minEval
  ELSE MinStep(boardState, depth, alpha, beta, color, castleR, moves, i,
               minEval,
               minimax(SimBoard(boardState, moves[i]), depth - 1, alpha, beta,
                       TRUE, Other(color),
                       SimCR(castleR, boardState, moves[i], color),
                       SimEP(moves[i])))

\* minimax(boardState, depth, alpha, beta, isMaximizing, currentTurn,
\*         castleR, epTarget).  The move list is generated with the globals
\* swapped to (boardState, castleR, epTarget), which are then restored.
minimax(boardState, depth, alpha, beta, isMaximizing, currentTurn, castleR, epTarget) ==
  IF depth = 0 THEN evaluateBoard(boardState)
  ELSE LET color == IF isMaximizing THEN "black" ELSE "white"
           moves == getLegalMoves(boardState, castleR, epTarget, color)
       IN IF Len(moves) = 0
          THEN LET kPos == findKing(boardState, color)
               IN IF isSquareAttacked(kPos.r, kPos.c, color, boardState)
                  THEN MateScore(isMaximizing, depth)
                  ELSE 0
          ELSE IF isMaximizing
               THEN MaxLoop(boardState, depth, alpha, beta, color, castleR,
                            moves, 1, 0 - Infinity, FALSE)
               ELSE MinLoop(boardState, depth, alpha, beta, color, castleR,
                            moves, 1, Infinity, FALSE)


(***************************************************************************)
(* The program state.  Every handler is an operator from the record G of   *)
(* all program variables to the record after the handler has run.          *)
(***************************************************************************)
VARIABLES
  board,            \* the 8x8 grid
  turn,             \* "white" | "black"
  castlingRights,   \* [white |-> [kingSide, queenSide], black |-> ...]
  enPassantTarget,  \* null or a square
  pendingPromotion, \* null or the held move
  capturedPieces,   \* [w |-> sequence, b |-> sequence]
  moveCount,
  halfMoveClock,
  isGameOver,
  status,           \* what statusElement / the modal announce
  selectedSquare,   \* null or [row, col]
  grabbedPiece,     \* null or a square
  gameMode,         \* "pvp" | "solo"
  aiElo,
  dom,              \* the grid as renderBoard last drew it (the .piece elements)
  timers,           \* pending setTimeout callbacks, in firing order
  useStockfish,
  stockfishReady,
  sfWorker,         \* "none" | "loading" | "up": the Worker and its "uci" handshake
  queries,          \* askStockfish promises still waiting, oldest first
  goPending,        \* "go" commands the worker has not answered yet
  microtasks,       \* settled promises whose reactions have not run yet
  last,             \* history: what the last handler did (not program state)
  script,           \* input driver: which input line is being played
  step,             \* input driver: next position in that line
  free,             \* input driver: free inputs used after the line
  probe             \* function checks: the call under examination

vars == <<board, turn, castlingRights, enPassantTarget, pendingPromotion,
          capturedPieces, moveCount, halfMoveClock, isGameOver, status,
          selectedSquare, grabbedPiece, gameMode, aiElo, dom, timers,
          useStockfish, stockfishReady, sfWorker, queries, goPending,
          microtasks, last, script, step, free, probe>>

G == [board |-> board, turn |-> turn, castlingRights |-> castlingRights,
      enPassantTarget |-> enPassantTarget,
      pendingPromotion |-> pendingPromotion,
      capturedPieces |-> capturedPieces, moveCount |-> moveCount,
      halfMoveClock |-> halfMoveClock, isGameOver |-> isGameOver,
      status |-> status, selectedSquare |-> selectedSquare,
      grabbedPiece |-> grabbedPiece, gameMode |-> gameMode, aiElo |-> aiElo,
      dom |-> dom, timers |-> timers, useStockfish |-> useStockfish,
      stockfishReady |-> stockfishReady, sfWorker |-> sfWorker,
      queries |-> queries, goPending |-> goPending,
      microtasks |-> microtasks, last |-> last]

\* The handler's result S becomes the next state.
Set(S) ==
  \E N \in {S} :
    /\ board' = N.board
    /\ turn' = N.turn
    /\ castlingRights' = N.castlingRights
    /\ enPassantTarget' = N.enPassantTarget
    /\ pendingPromotion' = N.pendingPromotion
    /\ capturedPieces' = N.capturedPieces
    /\ moveCount' = N.moveCount
    /\ halfMoveClock' = N.halfMoveClock
    /\ isGameOver' = N.isGameOver
    /\ status' = N.status
    /\ selectedSquare' = N.selectedSquare
    /\ grabbedPiece' = N.grabbedPiece
    /\ gameMode' = N.gameMode
    /\ aiElo' = N.aiElo
    /\ dom' = N.dom
    /\ timers' = N.timers
    /\ useStockfish' = N.useStockfish
    /\ stockfishReady' = N.stockfishReady
    /\ sfWorker' = N.sfWorker
    /\ queries' = N.queries
    /\ goPending' = N.goPending
    /\ microtasks' = N.microtasks
    /\ last' = N.last

Range(s) == {s[i] : i \in 1..Len(s)}

W(t) == <<"w", t>>

Bk(t) == <<"b", t>>

\* The grid initGame writes (303-312).
InitialBoard ==
  LET back == <<"r", "n", "b", "q", "k", "b", "n", "r">>
  IN [r \in Rows |->
       [c \in Cols |->
          CASE r = 0 -> Bk(back[c + 1])
            [] r = 1 -> Bk("p")
            [] r = 6 -> W("p")
            [] r = 7 -> W(back[c + 1])
            [] OTHER -> null]]

AllRights ==
  [white |-> [kingSide |-> TRUE, queenSide |-> TRUE],
   black |-> [kingSide |-> TRUE, queenSide |-> TRUE]]

\* The history record: the handler that ran last, whether it committed a
\* move ("commit"), held one for promotion ("pending"), threw ("throw") or
\* neither ("none"), the move it was about, and the state the handler
\* started from.
Hist(op, outcome, move, promotionChoice, S) ==
  [op |-> op, outcome |-> outcome, move |-> move, request |-> null,
   promotionChoice |-> promotionChoice,
   board |-> S.board, turn |-> S.turn, castlingRights |-> S.castlingRights,
   enPassantTarget |-> S.enPassantTarget,
   pendingPromotion |-> S.pendingPromotion,
   capturedPieces |-> S.capturedPieces, moveCount |-> S.moveCount,
   halfMoveClock |-> S.halfMoveClock, isGameOver |-> S.isGameOver]

\* initGame (284-315).  Timers, the worker and outstanding queries are not
\* touched by it.
initGame(S) ==
  [S EXCEPT !.isGameOver = FALSE, !.turn = "white",
            !.castlingRights = AllRights, !.enPassantTarget = null,
            !.selectedSquare = null, !.pendingPromotion = null,
            !.capturedPieces = [w |-> <<>>, b |-> <<>>], !.moveCount = 1,
            !.halfMoveClock = 0, !.status = "turn",
            !.board = InitialBoard, !.dom = InitialBoard,
            !.last = Hist("initGame", "none", null, noChoice, S)]

\* trackCapture (1274-1279): a captured piece joins the list of its own colour.
trackCapture(captured, piece) ==
  IF piece = null THEN captured
  ELSE [captured EXCEPT ![piece[1]] = Append(@, piece)]

\* makeMove 749-754: a pawn move onto row 0 or 7 without a promotion choice.
NeedsPromotion(fromPiece, move, promotionChoice) ==
  promotionChoice = noChoice /\ fromPiece[2] = "p"
  /\ (move.to.r = 0 \/ move.to.r = 7)

\* makeMove 755: the computer's automatic queen.
AutoQueen(S) == S.gameMode = "solo" /\ S.turn = "black"

\* makeMove 764-774: the rights record after the move; keyed by turn.
UpdateCastlingRights(CR, t, fromPiece, move) ==
  LET c1 == IF fromPiece[2] = "k"
            THEN [CR EXCEPT ![t] = [kingSide |-> FALSE, queenSide |-> FALSE]]
            ELSE CR
      c2 == IF fromPiece[2] = "r" /\ move.from.c = 0
            THEN [c1 EXCEPT ![t].queenSide = FALSE] ELSE c1
  IN IF fromPiece[2] = "r" /\ move.from.c = 7
     THEN [c2 EXCEPT ![t].kingSide = FALSE] ELSE c2

\* makeMove 782-783: relocate the piece.
Relocate(B, move, fromPiece) ==
  [[B EXCEPT ![move.to.r][move.to.c] = fromPiece]
     EXCEPT ![move.from.r][move.from.c] = null]

\* makeMove 785-790: the en-passant victim's square is cleared.
EnPassantRemove(B, move) ==
  IF move.special = "enpassant"
  THEN [B EXCEPT ![move.from.r][move.to.c] = null] ELSE B

\* makeMove 791-800: the castling rook: whatever stands on column 7 (0) of
\* the king's row goes to column 5 (3).
CastleRook(B, move) ==
  LET row == move.from.r
  IN CASE move.special = "castle-ks" ->
            [[B EXCEPT ![row][5] = B[row][7]] EXCEPT ![row][7] = null]
       [] move.special = "castle-qs" ->
            [[B EXCEPT ![row][3] = B[row][0]] EXCEPT ![row][0] = null]
       [] OTHER -> B

\* makeMove 802-805: turn[0] + promotionChoice replaces the moved piece.
ApplyPromotion(B, move, t, promotionChoice) ==
  IF promotionChoice # noChoice
  THEN [B EXCEPT ![move.to.r][move.to.c] = <<Prefix(t), promotionChoice>>]
  ELSE B

\* makeMove 807-812
NewEnPassantTarget(move) ==
  IF move.special = "double-push"
  THEN Sq((move.from.r + move.to.r) \div 2, move.from.c)
  ELSE null

\* makeMove 817-821
NewMoveCount(S) == IF S.turn = "white" THEN S.moveCount + 1 ELSE S.moveCount

\* A clock that counts every move; HalfMoveClockRule must fail with it in
\* place of NewHalfMoveClock.
ClockNeverResets(S, fromPiece, targetPiece) == S.halfMoveClock + 1

NewHalfMoveClock(S, fromPiece, targetPiece) ==
  IF fromPiece[2] = "p" \/ targetPiece # null THEN 0 ELSE S.halfMoveClock + 1

\* The positions of the timer queue at which a new 200 ms animation timer
\* may come to fire: after every animation timer already pending (same
\* delay, set earlier), before or after any pending 300 ms makeAIMove timer.
LastAnim(ts) ==
  LET at == {i \in 1..Len(ts) : ts[i] = "anim"}
  IN IF at = {} THEN 0 ELSE CHOOSE i \in at : \A j \in at : j <= i

AnimSlots(ts) == LastAnim(ts)..Len(ts)

InsertAt(ts, slot, x) ==
  SubSeq(ts, 1, slot) \o <<x>> \o SubSeq(ts, slot + 1, Len(ts))

\* The callback makeMove hands to animateMove (828-863): render, then the
\* game-over test for the side now to move, else the computer's timer.
AfterAnimation(S) ==
  LET S1 == [S EXCEPT !.dom = S.board]
      nextMoves == getLegalMoves(S.board, S.castlingRights,
                                 S.enPassantTarget, S.turn)
      k == findKing(S.board, S.turn)
  IN IF Len(nextMoves) = 0
     THEN [S1 EXCEPT !.isGameOver = TRUE,
                     !.status = IF isSquareAttacked(k.r, k.c, S.turn, S.board)
                                THEN "checkmate" ELSE "stalemate"]
     ELSE IF S.gameMode = "solo" /\ S.turn = "black"
          THEN [S1 EXCEPT !.timers = Append(@, "ai")]
          ELSE S1

\* animateMove (867-899): without a .piece element on the origin square (or
\* with a destination outside the grid) the callback runs at once, otherwise
\* after a 200 ms timer that takes position `slot` in the queue.
animateMove(S, move, slot) ==
  IF ~isValidSquare(move.to.r, move.to.c) \/ S.dom[move.from.r][move.from.c] = null
  THEN AfterAnimation(S)
  ELSE [S EXCEPT !.timers = InsertAt(@, slot, "anim")]

\* The grid after makeMove has executed the move (782-805) with `t` to move.
ExecuteMove(B, t, move, promotionChoice) ==
  ApplyPromotion(
    CastleRook(
      EnPassantRemove(Relocate(B, move, B[move.from.r][move.from.c]), move),
      move),
    move, t, promotionChoice)

\* The en-passant victim makeMove hands to trackCapture (787): what stands
\* on the victim's square once the capturing pawn has been relocated.
Victim(B, move) ==
  IF move.special = "enpassant"
  THEN Relocate(B, move, B[move.from.r][move.from.c])[move.from.r][move.to.c]
  ELSE null

\* The part of makeMove after the promotion test (764-864).
Commit(S, op, move, promotionChoice, slot) ==
  animateMove(
    [S EXCEPT
       !.castlingRights =
          UpdateCastlingRights(@, S.turn, S.board[move.from.r][move.from.c],
                               move),
       !.capturedPieces =
          trackCapture(trackCapture(@, S.board[move.to.r][move.to.c]),
                       Victim(S.board, move)),
       !.board = ExecuteMove(@, S.turn, move, promotionChoice),
       !.enPassantTarget = NewEnPassantTarget(move),
       !.moveCount = NewMoveCount(S),
       !.halfMoveClock =
          NewHalfMoveClock(S, S.board[move.from.r][move.from.c],
                           S.board[move.to.r][move.to.c]),
       !.turn = Other(S.turn),
       !.status = "turn",
       !.last = Hist(op, "commit", move, promotionChoice, S)],
    move, slot)

\* Holding the move and passing the turn as well; PromotionHeld must fail
\* with it in place of HoldForPromotion.
HoldAndPassTurn(S, op, move) ==
  [S EXCEPT !.pendingPromotion = move, !.turn = Other(S.turn),
            !.last = Hist(op, "pending", move, noChoice, S)]

\* makeMove 756-761: the move is held for the promotion dialogue.
HoldForPromotion(S, op, move) ==
  [S EXCEPT !.pendingPromotion = move,
            !.last = Hist(op, "pending", move, noChoice, S)]

\* makeMove(move, promotionChoice) called by handler `op`.  Reading
\* fromPiece[1] of an empty origin square throws a TypeError before anything
\* is written.
makeMove(S, op, move, promotionChoice, slot) ==
  LET fromPiece == S.board[move.from.r][move.from.c]
  IN IF fromPiece = null
     THEN [S EXCEPT !.last = Hist(op, "throw", move, promotionChoice, S)]
     ELSE IF NeedsPromotion(fromPiece, move, promotionChoice) /\ ~AutoQueen(S)
          THEN HoldForPromotion(S, op, move)
          ELSE Commit(S, op, move,
                      IF NeedsPromotion(fromPiece, move, promotionChoice)
                      THEN "q" ELSE promotionChoice,
                      slot)


(***************************************************************************)
(* The difficulty policy and the computer move (script.js 973-980,         *)
(* 1168-1272) and the oracle's move encoding (114-121).                    *)
(***************************************************************************)
\* ELO_CONFIG; blunderRate is kept in hundredths (0.5 is 50).
ELO_CONFIG ==
  [e \in {250, 500, 800, 1100, 1400, 1800} |->
     CASE e = 250 -> [depth |-> 1, blunderRate |-> 50]
       [] e = 500 -> [depth |-> 1, blunderRate |-> 30]
       [] e = 800 -> [depth |-> 2, blunderRate |-> 20]
       [] e = 1100 -> [depth |-> 2, blunderRate |-> 8]
       [] e = 1400 -> [depth |-> 3, blunderRate |-> 3]
       [] OTHER -> [depth |-> 3, blunderRate |-> 0]]

\* ELO_CONFIG[aiElo] || ELO_CONFIG[800]
ConfigOf(elo) ==
  IF elo \in DOMAIN ELO_CONFIG THEN ELO_CONFIG[elo] ELSE ELO_CONFIG[800]

\* scoredMoves of fallbackAIMove (1222-1257): every legal black move with
\* the minimax score of the position after it; the rights record handed to
\* the search is a plain copy of the live one.
ScoredMoves(S, config) ==
  LET moves == getLegalMoves(S.board, S.castlingRights, S.enPassantTarget,
                             "black")
  IN [i \in 1..Len(moves) |->
        [move |-> moves[i],
         score |-> minimax(SimBoard(S.board, moves[i]), config.depth - 1,
                           0 - Infinity, Infinity, FALSE, "white",
                           S.castlingRights, SimEP(moves[i]))]]

\* scoredMoves.sort((a, b) => b.score - a.score): descending and stable.
RECURSIVE InsertDesc(_, _, _)
InsertDesc(sorted, x, i) ==
  IF i > Len(sorted) THEN Append(sorted, x)
  ELSE IF sorted[i].score < x.score
       THEN SubSeq(sorted, 1, i - 1) \o <<x>> \o SubSeq(sorted, i, Len(sorted))
       ELSE InsertDesc(sorted, x, i + 1)

RECURSIVE SortDesc(_, _, _)
SortDesc(scored, i, acc) ==
  IF i > Len(scored) THEN acc
  ELSE SortDesc(scored, i + 1, InsertDesc(acc, scored[i], 1))

\* The pairs of consecutive values of Math.random() fallbackAIMove may draw,
\* in hundredths: the first decides the blunder, the second the entry.
RandomDraws == {<<0, 99>>, <<99, 0>>}

\* A selection that blunders when the first draw equals the blunder rate;
\* SelectionFollowsBlunderRate must fail with it in place of ChosenMove.
BlunderOnEqual(sorted, config, r1, r2) ==
  LET n == Len(sorted)
      bottomHalf == SubSeq(sorted, (n \div 2) + 1, n)
      bestScore == sorted[1].score
      topMoves == SelectSeq(sorted, LAMBDA m : m.score >= bestScore - 10)
  IN IF r1 <= config.blunderRate /\ n > 1
     THEN bottomHalf[((r2 * Len(bottomHalf)) \div 100) + 1].move
     ELSE topMoves[((r2 * Len(topMoves)) \div 100) + 1].move

\* chosenMove of fallbackAIMove (1259-1269) for the two draws r1 and r2:
\* an entry of the lower half of the sorted list when r1 is below
\* blunderRate and there are at least two moves, else an entry of the moves
\* within 10 of the best score; the entry is floor(r2 * length).
ChosenMove(sorted, config, r1, r2) ==
  LET n == Len(sorted)
      bottomHalf == SubSeq(sorted, (n \div 2) + 1, n)
      bestScore == sorted[1].score
      topMoves == SelectSeq(sorted, LAMBDA m : m.score >= bestScore - 10)
  IN IF r1 < config.blunderRate /\ n > 1
     THEN bottomHalf[((r2 * Len(bottomHalf)) \div 100) + 1].move
     ELSE topMoves[((r2 * Len(topMoves)) \div 100) + 1].move

\* The moves chosen from the sorted list over the draws of RandomDraws.
ChoicesOf(sorted, config) ==
  IF Len(sorted) = 0 THEN {}
  ELSE {ChosenMove(sorted, config, d[1], d[2]) : d \in RandomDraws}

\* The moves fallbackAIMove can choose; empty when black has no legal move.
FallbackChoices(S, config) ==
  ChoicesOf(SortDesc(ScoredMoves(S, config), 1, <<>>), config)

\* What fallbackAIMove is seen to choose: one of `choices`, or nothing (null)
\* when it returns at line 1220.
OrNone(choices) == IF choices = {} THEN {null} ELSE choices

\* A fallback that chooses a move and never plays it; OracleNeverBlocks must
\* fail with it in place of fallbackAIMove.
ChooseWithoutMoving(S, op, chosenMove, slot) ==
  [S EXCEPT !.last = Hist(op, "none", null, noChoice, S)]

\* fallbackAIMove(config) with its random draws resolved to `chosenMove`.
fallbackAIMove(S, op, chosenMove, slot) ==
  IF chosenMove = null
  THEN [S EXCEPT !.last = Hist(op, "none", null, noChoice, S)]
  ELSE makeMove(S, op, chosenMove, noChoice, slot)

\* What parseInt and charCodeAt give for a character that is no digit / no
\* file letter: a value no row or column equals.
NaN == -1000

\* charCodeAt(i) - 97 for the file letters; other characters fall outside 0..7.
FileOf(ch) ==
  CASE ch = "a" -> 0 [] ch = "b" -> 1 [] ch = "c" -> 2 [] ch = "d" -> 3
    [] ch = "e" -> 4 [] ch = "f" -> 5 [] ch = "g" -> 6 [] ch = "h" -> 7
    [] OTHER -> NaN

\* parseInt of one character
parseInt(ch) ==
  CASE ch = "0" -> 0 [] ch = "1" -> 1 [] ch = "2" -> 2 [] ch = "3" -> 3
    [] ch = "4" -> 4 [] ch = "5" -> 5 [] ch = "6" -> 6 [] ch = "7" -> 7
    [] ch = "8" -> 8 [] ch = "9" -> 9 [] OTHER -> NaN

\* uciToCoords: a UCI move is a sequence of characters (1-indexed here).
uciToCoords(uciMove) ==
  LET rowOf(ch) == IF parseInt(ch) = NaN THEN NaN ELSE 8 - parseInt(ch)
  IN [from |-> Sq(rowOf(uciMove[2]), FileOf(uciMove[1])),
      to |-> Sq(rowOf(uciMove[4]), FileOf(uciMove[3])),
      promotion |-> IF Len(uciMove) > 4 THEN uciMove[5] ELSE noChoice]

\* The then-callback of makeAIMove (1187-1208) for the reply uciMove.
\* `chosenMove` is what fallbackAIMove picks if the reply matches no legal move.
OracleReply(S, uciMove, chosenMove, slot) ==
  LET coords == uciToCoords(uciMove)
      legalMoves == getLegalMoves(S.board, S.castlingRights,
                                  S.enPassantTarget, "black")
      found == SelectSeq(legalMoves,
                 LAMBDA m : m.from = coords.from /\ m.to = coords.to)
  IN IF Len(found) > 0
     THEN makeMove(S, "oracle", found[1], coords.promotion, slot)
     ELSE fallbackAIMove(S, "fallback", chosenMove, slot)

\* askStockfish called by `who` (makeAIMove: "ai", getHint: "hint") with the
\* worker ready (124-160): a promise that waits for the next "bestmove"
\* line, and one more "go" sent to the worker.  `ahead` is the number of go
\* commands sent before this one that the worker has yet to answer.
askStockfish(S, who, config) ==
  [S EXCEPT !.queries = Append(@, [who |-> who, config |-> config,
                                   ahead |-> S.goPending]),
            !.goPending = @ + 1,
            !.last = Hist(IF who = "ai" THEN "makeAIMove" ELSE "getHint",
                          "none", null, noChoice, S)]

\* The hint button is disabled from the call of getHint until its finally
\* block has run (178-182, 267-272).
HintBusy(S) ==
  \/ \E i \in 1..Len(S.queries) : S.queries[i].who = "hint"
  \/ \E i \in 1..Len(S.microtasks) : S.microtasks[i].who = "hint"

\* getHint (175-273).  With the oracle in use it asks the oracle and awaits
\* the reply; otherwise it searches at once.  Either way it writes only the
\* hint highlight, which is not part of the game state.
getHint(S) ==
  IF ~S.isGameOver /\ S.useStockfish /\ S.stockfishReady
  THEN askStockfish(S, "hint", null)
  ELSE [S EXCEPT !.last = Hist("getHint", "none", null, noChoice, S)]

\* The rest of getHint once its query has settled (191-266, or the catch).
HintReply(S) == [S EXCEPT !.last = Hist("getHint", "none", null, noChoice, S)]

(***************************************************************************)
(* The input handlers (625-744, 1348-1357, 1367-1399).                     *)
(***************************************************************************)
OwnPiece(S, row, col) ==
  S.board[row][col] # null /\ S.board[row][col][1] = Prefix(S.turn)

\* The move a click on (row, col) asks for while `sel` is selected.
Request(sel, row, col) == [from |-> Sq(sel.row, sel.col), to |-> Sq(row, col)]

\* A click handler that moves the selected piece wherever the second click
\* lands; IllegalRequestRejected must fail with it in place of
\* handleSquareClick.
ClickMovesAnywhere(S, row, col, slot) ==
  IF S.isGameOver
  THEN [S EXCEPT !.last = Hist("click", "none", null, noChoice, S)]
  ELSE IF S.selectedSquare # null
          /\ S.board[S.selectedSquare.row][S.selectedSquare.col] # null
       THEN [makeMove(S, "click",
                      addMove(S.selectedSquare.row, S.selectedSquare.col,
                              row, col, "none"),
                      noChoice, slot)
               EXCEPT !.selectedSquare = null]
       ELSE [S EXCEPT !.selectedSquare =
                          IF OwnPiece(S, row, col)
                          THEN [row |-> row, col |-> col] ELSE null,
                      !.last = Hist("click", "none", null, noChoice, S)]

handleSquareClick(S, row, col, slot) ==
  LET S0 == [S EXCEPT !.last = Hist("click", "none", null, noChoice, S)]
      sel == S.selectedSquare
  IN IF S.isGameOver THEN S0
     ELSE IF sel # null
          THEN IF sel.row = row /\ sel.col = col
               THEN [S0 EXCEPT !.selectedSquare = null]
               ELSE LET legalMoves ==
                          getLegalMoves(S.board, S.castlingRights,
                                        S.enPassantTarget, S.turn)
                        found ==
                          SelectSeq(legalMoves,
                            LAMBDA m : m.from = Sq(sel.row, sel.col)
                                       /\ m.to = Sq(row, col))
                    IN IF Len(found) > 0
                       THEN [makeMove(S, "click", found[1], noChoice, slot)
                               EXCEPT !.selectedSquare = null]
                       ELSE IF OwnPiece(S, row, col)
                            THEN [S0 EXCEPT !.selectedSquare =
                                               [row |-> row, col |-> col],
                                            !.last.request = Request(sel, row, col)]
                            ELSE [S0 EXCEPT !.selectedSquare = null,
                                            !.last.request = Request(sel, row, col)]
          ELSE IF OwnPiece(S, row, col)
               THEN [S0 EXCEPT !.selectedSquare = [row |-> row, col |-> col]]
               ELSE S0

\* handleDragStart on the .piece element drawn at (r, c).
handleDragStart(S, r, c) ==
  LET S0 == [S EXCEPT !.last = Hist("dragstart", "none", null, noChoice, S)]
  IN IF S.isGameOver \/ ~OwnPiece(S, r, c) THEN S0
     ELSE [S0 EXCEPT !.selectedSquare = [row |-> r, col |-> c],
                     !.grabbedPiece = Sq(r, c)]

\* handleDrop: line 723 reads draggedPiece, which is declared nowhere, so the
\* handler ends in a ReferenceError before it looks for a move.
handleDrop(S) == [S EXCEPT !.last = Hist("drop", "throw", null, noChoice, S)]

\* handlePromotionChoice(type): pendingPromotion is cleared only when
\* makeMove returns.
handlePromotionChoice(S, type, slot) ==
  IF S.pendingPromotion # null
  THEN LET S1 == makeMove(S, "promotion", S.pendingPromotion, type, slot)
       IN IF S1.last.outcome = "throw" THEN S1
          ELSE [S1 EXCEPT !.pendingPromotion = null]
  ELSE [S EXCEPT !.last = Hist("promotion", "none", null, noChoice, S)]

\* The three buttons that start a game.
btnReset(S) == initGame(S)

btnPvp(S) == initGame([S EXCEPT !.gameMode = "pvp"])

diffBtn(S, elo) == initGame([S EXCEPT !.aiElo = elo, !.gameMode = "solo"])

\* makeAIMove (1168-1215), the 300 ms timer's callback.
makeAIMove(S, chosenMove, slot) ==
  IF S.useStockfish /\ S.stockfishReady
  THEN askStockfish(S, "ai", ConfigOf(S.aiElo))
  ELSE fallbackAIMove(S, "fallback", chosenMove, slot)


(***************************************************************************)
(* The inputs.  The program is driven by a bounded family of input lines:  *)
(* each line is a sequence of steps, a step being the set of inputs (a     *)
(* square click, a promotion choice, a button, a worker message) the       *)
(* environment may give next; after its line the environment gives up to   *)
(* MaxFree further inputs from the line's free set.  A step marked `wait`   *)
(* is given only once every timer has fired and no oracle query is out     *)
(* (the user lets the move finish); the other steps and the free inputs    *)
(* come at any moment.  Timers fire and promise reactions run whenever the *)
(* event loop allows.  Every state reached is reached by the program from  *)
(* initGame.                                                               *)
(***************************************************************************)
MaxFree == 2

NoInput == [click |-> {}, drag |-> {}, drop |-> {}, promo |-> {}, btn |-> {},
            diff |-> {}, sf |-> {}, best |-> {}, silent |-> FALSE,
            wait |-> TRUE]

\* The same step given at any moment.
Hasty(s) == [s EXCEPT !.wait = FALSE]

\* The square named file+rank: row = 8 - rank.
At(file, rank) == <<8 - rank, FileOf(file)>>

Click(squares) == [NoInput EXCEPT !.click = squares]

\* The two clicks that play file1 rank1 -> file2 rank2.
Play(f1, r1, f2, r2) == <<Click({At(f1, r1)}), Click({At(f2, r2)})>>

Button(b) == [NoInput EXCEPT !.btn = {b}]

Hint == Hasty(Button("hint"))

Difficulty(elos) == [NoInput EXCEPT !.diff = elos]

Worker(m) == [NoInput EXCEPT !.sf = {m}]

Bestmove(replies) == [NoInput EXCEPT !.best = replies, !.wait = FALSE]

\* The oracle stays silent until the 10 s timer of a query fires.
Silent == [NoInput EXCEPT !.silent = TRUE, !.wait = FALSE]

\* The oracle's last step of line 11, or its silence.
LastStep ==
  [NoInput EXCEPT !.wait = FALSE, !.silent = TRUE,
                  !.best = {<<"b", "2", "a", "1">>,
                            <<"b", "2", "a", "1", "n">>}]

\* 1: pawn double pushes and en passant, two players.
LineEnPassant ==
  Play("e", 2, "e", 4) \o Play("a", 7, "a", 6) \o Play("e", 4, "e", 5)
  \o <<Click({At("d", 7), At("f", 7)}),
       Click({At("d", 5), At("f", 5), At("d", 6)}),
       Click({At("e", 5)}),
       Click({At("d", 6), At("f", 6), At("e", 6)})>>

\* 2: the h1 rook is captured on its home square, then white castles.
LineLostRook ==
  Play("g", 2, "g", 3) \o Play("b", 7, "b", 6) \o Play("g", 1, "h", 3)
  \o Play("c", 8, "b", 7) \o Play("e", 2, "e", 3) \o Play("b", 7, "h", 1)
  \o Play("f", 1, "e", 2)
  \o <<Click({At("a", 7), At("h", 1)}), Click({At("a", 6), At("b", 7)})>>
  \o Play("e", 1, "g", 1)

\* 3: castling while f1 is or is not attacked by the bishop on a6.
LineCastleCheck ==
  Play("e", 2, "e", 4) \o Play("b", 7, "b", 6) \o Play("g", 1, "f", 3)
  \o Play("c", 8, "a", 6) \o Play("g", 2, "g", 3) \o Play("h", 7, "h", 6)
  \o Play("f", 1, "g", 2)
  \o <<Click({At("a", 6), At("h", 6)}), Click({At("b", 7), At("h", 5)})>>
  \o Play("e", 1, "g", 1)

\* 4: a white pawn walks to the last rank, two players; then promotion
\* choices and further clicks in either order.
LinePromotion ==
  Play("h", 2, "h", 4) \o Play("g", 7, "g", 5) \o Play("h", 4, "g", 5)
  \o Play("h", 7, "h", 6) \o Play("g", 5, "h", 6) \o Play("a", 7, "a", 6)
  \o Play("h", 6, "h", 7) \o Play("a", 6, "a", 5) \o Play("h", 7, "g", 8)
  \o <<[NoInput EXCEPT !.promo = {"q", "n"}, !.click = {At("a", 2)}],
       [NoInput EXCEPT !.promo = {"q"}, !.click = {At("a", 3), At("a", 4)}],
       [NoInput EXCEPT !.promo = {"r"}, !.click = {At("h", 8)}],
       [NoInput EXCEPT !.promo = {"b"}, !.click = {At("g", 8)}]>>

\* 5: two moves against the built-in search.
LineSolo ==
  <<Difficulty({250})>> \o Play("e", 2, "e", 4) \o Play("d", 2, "d", 4)

\* 6: against the oracle; black is moved by two clicks while the query is
\* out, then the oracle's replies are played.
LineOracle ==
  <<Worker("uciok"), Difficulty({250})>> \o Play("f", 2, "f", 3)
  \o <<Hasty(Click({At("e", 7)})), Hasty(Click({At("e", 6)})),
       Bestmove({<<"d", "8", "h", "4">>, <<"d", "7", "d", "5">>,
                 <<"e", "8", "e", "7">>}),
       Bestmove({<<"h", "4", "e", "1">>, <<"h", "4", "g", "3">>})>>

\* 7: oracle replies of every shape to the first white move, then an
\* oracle that does not answer, then a worker that fails.
LineReplies ==
  <<Worker("uciok"), Difficulty({500})>> \o Play("e", 2, "e", 4)
  \o <<Bestmove({<<"e", "7", "e", "5">>, <<"g", "8", "f", "6", "q">>,
                 <<"(", "n", "o", "n", "e", ")">>, <<"e", "7", "e", "4">>})>>
  \o Play("d", 2, "d", 4) \o <<Silent, Worker("error")>>

\* 8: two players; the black queen comes to h4 with mate (after g2-g4) or
\* with a check that can be answered (after Ke1-f2).
LineMate ==
  Play("f", 2, "f", 3) \o Play("e", 7, "e", 5)
  \o <<Click({At("g", 2), At("e", 1)}), Click({At("g", 4), At("f", 2)})>>
  \o Play("d", 8, "h", 4)

\* 9: against the oracle; the black e-pawn is moved by two clicks while the
\* first query is out, white answers g2-g4 at once, and the oracle's queen
\* move to h4 arrives while a second computer move is already scheduled.
LineSoloMate ==
  <<Worker("uciok"), Difficulty({250})>> \o Play("f", 2, "f", 3)
  \o <<Hasty(Click({At("e", 7)})), Hasty(Click({At("e", 5)})),
       Hasty(Click({At("g", 2)})), Hasty(Click({At("g", 4)})),
       Bestmove({<<"d", "8", "h", "4">>}),
       Bestmove({<<"a", "7", "a", "6">>})>>

\* 10: a hint is asked of an oracle that stays silent; a second hint is
\* asked, and white moves before it has come.
LineHint ==
  <<Worker("uciok"), Difficulty({500}), Hint, Silent, Hint,
    Hasty(Click({At("e", 2)})), Hasty(Click({At("e", 4)})),
    Bestmove({<<"e", "2", "e", "4">>, <<"e", "7", "e", "5">>}),
    Bestmove({<<"e", "7", "e", "5">>})>>

\* 11: against the oracle, which walks black's a-pawn to b2; its last step
\* (b2xa1, with or without a promotion letter) comes from the oracle or,
\* the oracle staying silent, from the built-in search, before or after the
\* human has moved black's h-pawn by two clicks.
LineAIPromotion ==
  <<Worker("uciok"), Difficulty({250})>>
  \o Play("g", 1, "f", 3) \o <<Bestmove({<<"a", "7", "a", "5">>})>>
  \o Play("f", 3, "g", 1) \o <<Bestmove({<<"a", "5", "a", "4">>})>>
  \o Play("g", 1, "f", 3) \o <<Bestmove({<<"a", "4", "a", "3">>})>>
  \o Play("f", 3, "g", 1) \o <<Bestmove({<<"a", "3", "b", "2">>})>>
  \o Play("g", 1, "f", 3)
  \o <<[LastStep EXCEPT !.click = {At("h", 7)}],
       [LastStep EXCEPT !.click = {At("h", 6)}],
       LastStep>>

\* 12: hints asked of the oracle while nothing else happens: one is
\* answered, one is not; then a move against the oracle.
LineHintOnly ==
  <<Worker("uciok"), Difficulty({250}), Button("hint"),
    Bestmove({<<"e", "2", "e", "4">>}), Button("hint"), Silent>>
  \o Play("e", 2, "e", 4) \o <<Bestmove({<<"e", "7", "e", "5">>}), Silent>>

Lines ==
  <<LineEnPassant, LineLostRook, LineCastleCheck, LinePromotion,
    LineSolo, LineOracle, LineReplies, LineMate, LineSoloMate, LineHint,
    LineAIPromotion, LineHintOnly>>

\* The free inputs that may follow each line.
FreeInputs ==
  <<[NoInput EXCEPT !.wait = FALSE, !.click = {At("d", 5), At("d", 6), At("e", 5), At("e", 6),
                               At("c", 7), At("e", 7)}],
    [NoInput EXCEPT !.wait = FALSE, !.click = {At("e", 1), At("g", 1), At("f", 1), At("h", 1),
                               At("e", 8), At("d", 8)},
                    !.drag = {At("f", 1)}, !.drop = {"drop"}],
    [NoInput EXCEPT !.wait = FALSE, !.click = {At("e", 1), At("g", 1), At("f", 1), At("d", 2),
                               At("d", 3), At("a", 6), At("b", 7)}],
    [NoInput EXCEPT !.wait = FALSE, !.click = {At("g", 8), At("h", 8), At("f", 8), At("a", 2),
                               At("a", 4)},
                    !.promo = {"q", "n"}, !.btn = {"reset"}],
    [NoInput EXCEPT !.wait = FALSE, !.click = {At("d", 7)},
                    !.btn = {"pvp", "reset"}],
    [NoInput EXCEPT !.wait = FALSE, !.click = {At("e", 1), At("f", 2)},
                    !.btn = {"reset"}],
    [NoInput EXCEPT !.wait = FALSE, !.click = {At("d", 1), At("d", 3)},
                    !.best = {<<"d", "7", "d", "5">>}],
    [NoInput EXCEPT !.wait = FALSE, !.click = {At("g", 2), At("g", 3), At("f", 2), At("e", 3),
                               At("e", 1)},
                    !.btn = {"reset"}, !.promo = {"q"}],
    [NoInput EXCEPT !.wait = FALSE, !.click = {At("e", 1)},
                    !.btn = {"reset"}],
    [NoInput EXCEPT !.wait = FALSE, !.click = {At("d", 2), At("d", 4)},
                    !.btn = {"hint"}],
    [NoInput EXCEPT !.wait = FALSE, !.click = {At("a", 1)},
                    !.promo = {"q"}],
    [NoInput EXCEPT !.wait = FALSE, !.btn = {"hint", "reset"}]>>

\* What the environment may give now.
Cur ==
  IF step <= Len(Lines[script]) THEN Lines[script][step]
  ELSE IF free < MaxFree THEN FreeInputs[script] ELSE NoInput

Advance ==
  /\ script' = script
  /\ IF step <= Len(Lines[script])
     THEN step' = step + 1 /\ free' = free
     ELSE step' = step /\ free' = free + 1
  /\ probe' = probe

Stay == UNCHANGED <<script, step, free, probe>>

\* A task of the event loop starts only when no promise reaction is waiting.
Idle == microtasks = <<>>

Quiet == timers = <<>> /\ queries = <<>> /\ microtasks = <<>>

\* An input of the current step can be given now.
Ready == Idle /\ (Cur.wait => Quiet)


(***************************************************************************)
(* The state after the page has loaded: the top-level declarations, the    *)
(* call of initStockfish (the worker is still loading) and initGame.       *)
(***************************************************************************)
Loaded ==
  /\ board = InitialBoard
  /\ turn = "white"
  /\ castlingRights = AllRights
  /\ enPassantTarget = null
  /\ pendingPromotion = null
  /\ capturedPieces = [w |-> <<>>, b |-> <<>>]
  /\ moveCount = 1
  /\ halfMoveClock = 0
  /\ isGameOver = FALSE
  /\ status = "turn"
  /\ selectedSquare = null
  /\ grabbedPiece = null
  /\ gameMode = "pvp"
  /\ aiElo = 800
  /\ dom = InitialBoard
  /\ timers = <<>>
  /\ useStockfish = FALSE
  /\ stockfishReady = FALSE
  /\ sfWorker = "loading"
  /\ queries = <<>>
  /\ goPending = 0
  /\ microtasks = <<>>
  /\ last = [op |-> "initGame", outcome |-> "none", move |-> null,
             request |-> null, promotionChoice |-> noChoice, board |-> InitialBoard,
             turn |-> "white", castlingRights |-> AllRights,
             enPassantTarget |-> null, pendingPromotion |-> null,
             capturedPieces |-> [w |-> <<>>, b |-> <<>>], moveCount |-> 0,
             halfMoveClock |-> 0, isGameOver |-> FALSE]
  /\ script \in 1..Len(Lines)
  /\ step = 1
  /\ free = 0

\* No function is under examination while the game is played.
NoProbe == [fn |-> "none"]

Init == Loaded /\ probe = NoProbe

\* A click on a square.
SquareClick ==
  /\ Ready
  /\ \E sq \in Cur.click : \E slot \in AnimSlots(timers) :
       Set(handleSquareClick(G, sq[1], sq[2], slot))
  /\ Advance

\* A drag started on a piece element the board shows.
DragStart ==
  /\ Ready
  /\ \E sq \in Cur.drag :
       /\ dom[sq[1]][sq[2]] # null
       /\ Set(handleDragStart(G, sq[1], sq[2]))
  /\ Advance

Drop ==
  /\ Ready
  /\ Cur.drop # {}
  /\ Set(handleDrop(G))
  /\ Advance

\* A click on one of the promotion pieces.
PromotionChoice ==
  /\ Ready
  /\ \E type \in Cur.promo : \E slot \in AnimSlots(timers) :
       Set(handlePromotionChoice(G, type, slot))
  /\ Advance

ResetButton ==
  /\ Ready
  /\ "reset" \in Cur.btn
  /\ Set(btnReset(G))
  /\ Advance

PvpButton ==
  /\ Ready
  /\ "pvp" \in Cur.btn
  /\ Set(btnPvp(G))
  /\ Advance

DifficultyButton ==
  /\ Ready
  /\ \E elo \in Cur.diff : Set(diffBtn(G, elo))
  /\ Advance

\* The hint button, enabled while no hint is being computed.
HintButton ==
  /\ Ready
  /\ "hint" \in Cur.btn
  /\ ~HintBusy(G)
  /\ Set(getHint(G))
  /\ Advance

\* The oldest 200 ms animation timer fires.
AnimationTimer ==
  /\ Idle
  /\ timers # <<>> /\ Head(timers) = "anim"
  /\ Set(AfterAnimation([G EXCEPT !.timers = Tail(@),
                                  !.last = Hist("animation", "none", null, noChoice, G)]))
  /\ Stay

\* The oldest 300 ms makeAIMove timer fires.
AITimer ==
  /\ Idle
  /\ timers # <<>> /\ Head(timers) = "ai"
  /\ \E chosenMove \in (IF useStockfish /\ stockfishReady THEN {null}
                        ELSE OrNone(FallbackChoices(G, ConfigOf(aiElo)))) :
       \E slot \in AnimSlots(Tail(timers)) :
         Set(makeAIMove([G EXCEPT !.timers = Tail(@)], chosenMove, slot))
  /\ Stay

\* The worker answers its "uci" handshake (33-41).
StockfishUciOk ==
  /\ Ready
  /\ "uciok" \in Cur.sf
  /\ sfWorker = "loading"
  /\ Set([G EXCEPT !.stockfishReady = TRUE, !.useStockfish = TRUE,
                   !.sfWorker = "up",
                   !.last = Hist("uciok", "none", null, noChoice, G)])
  /\ Advance

\* The worker's onerror (42-46).
StockfishError ==
  /\ Ready
  /\ "error" \in Cur.sf
  /\ Set([G EXCEPT !.useStockfish = FALSE,
                   !.last = Hist("onerror", "none", null, noChoice, G)])
  /\ Advance

\* A "bestmove" line arrives: every handler still registered resolves its
\* promise with the move (139-150); the reactions run as microtasks.
StockfishBestmove ==
  /\ Ready
  /\ goPending > 0
  /\ \E uciMove \in Cur.best :
       Set([G EXCEPT
              !.goPending = @ - 1,
              !.microtasks =
                 [i \in 1..Len(queries) |->
                    [who |-> queries[i].who, config |-> queries[i].config,
                     uciMove |-> uciMove, own |-> queries[i].ahead = 0]],
              !.queries = <<>>,
              !.last = Hist("bestmove", "none", null, noChoice, G)])
  /\ Advance

\* Whether the reply names the squares of a legal black move (1191-1198).
Matches(S, uciMove) ==
  \E m \in Range(getLegalMoves(S.board, S.castlingRights, S.enPassantTarget,
                               "black")) :
    m.from = uciToCoords(uciMove).from /\ m.to = uciToCoords(uciMove).to

\* The reaction of the oldest resolved promise runs (1187-1208).
PromiseReaction ==
  /\ microtasks # <<>>
  /\ Head(microtasks).who = "ai"
  /\ \E chosenMove \in (IF Matches(G, Head(microtasks).uciMove) THEN {null}
                        ELSE OrNone(FallbackChoices(G, Head(microtasks).config))) :
       \E slot \in AnimSlots(timers) :
         Set(OracleReply([G EXCEPT !.microtasks = Tail(@)],
                         Head(microtasks).uciMove, chosenMove, slot))
  /\ Stay

\* The reaction of the oldest resolved promise runs, and it is getHint that
\* awaited it (191-196).
HintReaction ==
  /\ microtasks # <<>>
  /\ Head(microtasks).who = "hint"
  /\ Set(HintReply([G EXCEPT !.microtasks = Tail(@)]))
  /\ Stay

\* The 10 s timer of the oldest waiting query fires (132-137): the promise
\* is rejected and makeAIMove's catch runs fallbackAIMove.
StockfishTimeout ==
  /\ Idle
  /\ Cur.silent
  /\ queries # <<>>
  /\ Head(queries).who = "ai"
  /\ \E chosenMove \in OrNone(FallbackChoices(G, Head(queries).config)) :
       \E slot \in AnimSlots(timers) :
         Set(fallbackAIMove([G EXCEPT !.queries = Tail(@)], "fallback",
                            chosenMove, slot))
  /\ Advance

\* The 10 s timer of the oldest waiting query fires and getHint awaited it:
\* its catch logs a warning (264-266).
HintTimeout ==
  /\ Idle
  /\ Cur.silent
  /\ queries # <<>>
  /\ Head(queries).who = "hint"
  /\ Set(HintReply([G EXCEPT !.queries = Tail(@)]))
  /\ Advance

Next ==
  \/ SquareClick
  \/ DragStart
  \/ Drop
  \/ PromotionChoice
  \/ ResetButton
  \/ PvpButton
  \/ DifficultyButton
  \/ AnimationTimer
  \/ AITimer
  \/ StockfishUciOk
  \/ StockfishError
  \/ StockfishBestmove
  \/ PromiseReaction
  \/ HintReaction
  \/ StockfishTimeout
  \/ HintTimeout
  \/ HintButton

Spec == Init /\ [][Next]_vars

\* The 10 s timer of the oldest waiting query fires, whatever the
\* environment does (132-137): the promise is rejected, and the catch of
\* makeAIMove runs fallbackAIMove or the catch of getHint logs a warning.
QueryTimeout ==
  /\ Idle
  /\ queries # <<>>
  /\ \E chosenMove \in (IF Head(queries).who = "hint" THEN {null}
                        ELSE OrNone(FallbackChoices(G, Head(queries).config))) :
       \E slot \in AnimSlots(timers) :
         Set(IF Head(queries).who = "hint"
             THEN HintReply([G EXCEPT !.queries = Tail(@)])
             ELSE fallbackAIMove([G EXCEPT !.queries = Tail(@)], "fallback",
                                 chosenMove, slot))
  /\ Stay

LiveNext == Next \/ QueryTimeout

\* The input lines played when the timeouts come at any moment: those in
\* which the human's inputs wait for the computer's move, and line 5 with
\* its free clicks and resets.
LiveLines == {1, 2, 3, 4, 5, 7, 8, 12}

LiveInit == Init /\ script \in LiveLines

\* A step in which the oldest timer fires (AnimationTimer or AITimer).
TimerFires ==
  /\ Idle
  /\ timers # <<>>
  /\ last'.op \in {"animation", "makeAIMove", "fallback"}

\* A step in which the oldest promise reaction that makeAIMove registered
\* runs (PromiseReaction).
ReactionRuns ==
  /\ microtasks # <<>>
  /\ Head(microtasks).who = "ai"
  /\ microtasks' = Tail(microtasks)

\* A step in which the oldest waiting query is settled (by its 10 s timeout,
\* if by nothing else).
QuerySettles == Idle /\ queries # <<>> /\ queries' = Tail(queries)

\* The event loop runs every timer that is due, every promise reaction and
\* every 10 s timeout; the inputs (clicks, buttons, worker messages) may
\* stop at any moment.  Weak fairness of AnimationTimer and AITimer, of
\* PromiseReaction and of QueryTimeout is written out as "infinitely often
\* not due, or infinitely often taken", with the condition under which each
\* is enabled stated directly.
LiveSpec ==
  /\ LiveInit
  /\ [][LiveNext]_vars
  /\ WF_vars(HintReaction)
  /\ []<>(~(Idle /\ timers # <<>>)) \/ []<><<TimerFires>>_vars
  /\ []<>(~(microtasks # <<>> /\ Head(microtasks).who = "ai"))
       \/ []<><<ReactionRuns>>_vars
  /\ []<>(~(Idle /\ queries # <<>>)) \/ []<><<QuerySettles>>_vars


(***************************************************************************)
(* Function checks.  A function of the program is applied to arguments     *)
(* drawn from a bounded set: `probe` holds the arguments and, once the     *)
(* function has run, its result; the game itself stays as initGame left    *)
(* it.                                                                     *)
(***************************************************************************)
GameUnchanged ==
  UNCHANGED <<board, turn, castlingRights, enPassantTarget, pendingPromotion,
              capturedPieces, moveCount, halfMoveClock, isGameOver, status,
              selectedSquare, grabbedPiece, gameMode, aiElo, dom, timers,
              useStockfish, stockfishReady, sfWorker, queries, goPending,
              microtasks, last, script, step, free>>

\* The selection of fallbackAIMove (1257-1269) on score lists of up to
\* MaxMoves moves; a move is named by its place in the unsorted list.
MaxMoves == 4
Scores == {0, 9, 10, 11, 40}
Draws == {0, 33, 50, 99}
BlunderRates == {0, 50, 100}
ScoreLists ==
  UNION {[1..n -> Scores] : n \in 1..MaxMoves}
Scored(scores) == [i \in 1..Len(scores) |-> [move |-> i, score |-> scores[i]]]

PolicyInit ==
  /\ Loaded /\ script = 1
  /\ probe \in {[fn |-> "fallbackAIMove", scoredMoves |-> Scored(l),
                 config |-> [depth |-> 1, blunderRate |-> b],
                 sorted |-> <<>>, chosenMove |-> 0] :
                  l \in ScoreLists, b \in BlunderRates}

\* scoredMoves.sort(...) and the choice, for one pair of draws.
PolicyChoose ==
  /\ probe.chosenMove = 0
  /\ \E r1 \in Draws, r2 \in Draws :
       LET sorted == SortDesc(probe.scoredMoves, 1, <<>>)
       IN probe' = [probe EXCEPT
                      !.sorted = sorted,
                      !.chosenMove = ChosenMove(sorted, probe.config, r1, r2)]
  /\ GameUnchanged

PolicySpec == PolicyInit /\ [][PolicyChoose]_vars


\* The first two moves of a game: from the state initGame leaves, every
\* move getLegalMoves returns for the side to move is committed by makeMove.
PerftInit ==
  /\ Loaded /\ script = 1
  /\ probe = [fn |-> "getLegalMoves", ply |-> 0]

PerftWhite ==
  /\ probe.ply = 0
  /\ \E move \in Range(getLegalMoves(board, castlingRights, enPassantTarget,
                                      "white")) :
       \E slot \in AnimSlots(timers) :
         Set(makeMove(G, "click", move, noChoice, slot))
  /\ probe' = [probe EXCEPT !.ply = 1]
  /\ UNCHANGED <<script, step, free>>

PerftBlack ==
  /\ probe.ply = 1
  /\ \E move \in Range(getLegalMoves(board, castlingRights, enPassantTarget,
                                      "black")) :
       \E slot \in AnimSlots(timers) :
         Set(makeMove(G, "click", move, noChoice, slot))
  /\ probe' = [probe EXCEPT !.ply = 2]
  /\ UNCHANGED <<script, step, free>>

PerftNext == PerftWhite \/ PerftBlack

PerftSpec == PerftInit /\ [][PerftNext]_vars


(***************************************************************************)
(* The search as the program runs it (1004-1166, 205-238, 1222-1257):      *)
(* grids and rights records are objects reached through references, the    *)
(* globals board, castlingRights and enPassantTarget are variables that     *)
(* hold references, and every call of minimax is a frame of the stack.     *)
(* `heap` is the sequence of all objects, a reference is a place in it.    *)
(* A grid is an array of eight references to row arrays; a rights record   *)
(* refers to one record per colour.                                        *)
(***************************************************************************)
GridAt(heap, ref) == [r \in Rows |-> heap[heap[ref][r]]]

RightsAt(heap, ref) ==
  [white |-> heap[heap[ref].white], black |-> heap[heap[ref].black]]

\* A copy that shares the rows of the original; SearchOwnsItsCopies must
\* fail with it in place of CopyGrid.
CopyOuterArrayOnly(heap, ref) ==
  [heap |-> heap \o [k \in 1..8 |-> heap[heap[ref][k - 1]]]
                 \o <<heap[ref]>>,
   ref |-> Len(heap) + 9]

\* boardState.map((row) => [...row]): eight new rows and a new outer array.
CopyGrid(heap, ref) ==
  [heap |-> heap \o [k \in 1..8 |-> heap[heap[ref][k - 1]]]
                 \o <<[r \in Rows |-> Len(heap) + r + 1]>>,
   ref |-> Len(heap) + 9]

\* JSON.parse(JSON.stringify(castleR)): a new record per colour and a new
\* outer record.
CopyRights(heap, ref) ==
  [heap |-> heap \o <<heap[heap[ref].white], heap[heap[ref].black],
                      [white |-> Len(heap) + 1, black |-> Len(heap) + 2]>>,
   ref |-> Len(heap) + 3]

\* The assignments newBoard[..][..] = .. made through reference ref, which
\* leave the rows it refers to holding `grid`.
WriteGrid(heap, ref, grid) ==
  [a \in 1..Len(heap) |->
     IF \E r \in Rows : heap[ref][r] = a
     THEN grid[CHOOSE r \in Rows : heap[ref][r] = a]
     ELSE heap[a]]

\* The assignments newCR[..].kingSide = false, newCR[..].queenSide = false
\* made through reference ref, which leave its records holding `rights`.
WriteRights(heap, ref, rights) ==
  [a \in 1..Len(heap) |->
     IF a = heap[ref].white THEN rights.white
     ELSE IF a = heap[ref].black THEN rights.black
     ELSE heap[a]]

\* What the arguments of a call and the live globals hold.
Snapshot(P, boardState, castleR) ==
  [boardState |-> GridAt(P.heap, boardState),
   castleR |-> RightsAt(P.heap, castleR),
   boardRef |-> P.board, castlingRightsRef |-> P.castlingRights,
   board |-> GridAt(P.heap, P.board),
   castlingRights |-> RightsAt(P.heap, P.castlingRights),
   enPassantTarget |-> P.enPassantTarget]

\* minimax 1021-1046: the globals are saved, set to the arguments, the safe
\* pseudo-legal moves of `color` are gathered, and the globals are restored.
Gather(P, boardState, castleR, epTarget, color) ==
  LET savedBoard == P.board
      savedCR == P.castlingRights
      savedEP == P.enPassantTarget
      Q == [P EXCEPT !.board = boardState, !.castlingRights = castleR,
                     !.enPassantTarget = epTarget]
      moves == getLegalMoves(GridAt(Q.heap, Q.board),
                             RightsAt(Q.heap, Q.castlingRights),
                             Q.enPassantTarget, color)
  IN [P |-> [Q EXCEPT !.board = savedBoard, !.castlingRights = savedCR,
                      !.enPassantTarget = savedEP],
      moves |-> moves]

\* A value comes back to the caller: the objects made for the call are
\* garbage, and the loop of the caller's frame takes the value (1107-1110,
\* 1160-1163); with no frame left it is the score of the root move.
DeliverCutEarly(P, value, base, entry, exit) ==
  LET Q == [P EXCEPT !.heap = SubSeq(@, 1, base),
                     !.returned = [call |-> "minimax", entry |-> entry,
                                   exit |-> exit, value |-> value]]
      n == Len(P.stack)
      F == P.stack[n]
  IN IF n = 0
     THEN [Q EXCEPT !.phase = "done", !.score = value]
     ELSE IF F.isMaximizing
          THEN [Q EXCEPT !.stack[n].best = Max(F.best, value),
                         !.stack[n].alpha = Max(F.alpha, value),
                         !.stack[n].cut = F.beta - 100 <= Max(F.alpha, value),
                         !.stack[n].i = F.i + 1]
          ELSE [Q EXCEPT !.stack[n].best = Min(F.best, value),
                         !.stack[n].beta = Min(F.beta, value),
                         !.stack[n].cut = Min(F.beta, value) <= F.alpha,
                         !.stack[n].i = F.i + 1]

Deliver(P, value, base, entry, exit) ==
  LET Q == [P EXCEPT !.heap = SubSeq(@, 1, base),
                     !.returned = [call |-> "minimax", entry |-> entry,
                                   exit |-> exit, value |-> value]]
      n == Len(P.stack)
      F == P.stack[n]
  IN IF n = 0
     THEN [Q EXCEPT !.phase = "done", !.score = value]
     ELSE IF F.isMaximizing
          THEN [Q EXCEPT !.stack[n].best = Max(F.best, value),
                         !.stack[n].alpha = Max(F.alpha, value),
                         !.stack[n].cut = F.beta <= Max(F.alpha, value),
                         !.stack[n].i = F.i + 1]
          ELSE [Q EXCEPT !.stack[n].best = Min(F.best, value),
                         !.stack[n].beta = Min(F.beta, value),
                         !.stack[n].cut = Min(F.beta, value) <= F.alpha,
                         !.stack[n].i = F.i + 1]

\* minimax(boardState, depth, alpha, beta, isMaximizing, _, castleR,
\* epTarget) is called: at depth 0 it returns the evaluation at once
\* (1014-1016), else a frame is pushed with the moves of the node.  `base`
\* is the size of the heap before the caller made the arguments; `revoked`
\* is the rights record the revocation rule gives along the simulated moves.
Call(P, boardState, depth, alpha, beta, isMaximizing, castleR, epTarget, base, revoked) ==
  IF depth = 0
  THEN Deliver(P, evaluateBoard(GridAt(P.heap, boardState)), base,
               Snapshot(P, boardState, castleR),
               Snapshot(P, boardState, castleR))
  ELSE LET color == IF isMaximizing THEN "black" ELSE "white"
           g == Gather(P, boardState, castleR, epTarget, color)
       IN [g.P EXCEPT
             !.returned = [call |-> "none"],
             !.stack = Append(@,
                [boardState |-> boardState, castleR |-> castleR,
                 epTarget |-> epTarget, depth |-> depth, alpha |-> alpha,
                 beta |-> beta, isMaximizing |-> isMaximizing,
                 moves |-> g.moves, i |-> 1,
                 best |-> IF isMaximizing THEN 0 - Infinity ELSE Infinity,
                 cut |-> FALSE, base |-> base, revoked |-> revoked,
                 entry |-> Snapshot(P, boardState, castleR)])]

\* The frame on top of the stack.
Top(P) == P.stack[Len(P.stack)]

\* The loop of the top frame has ended: no move to try (1048-1055), every
\* move tried, or beta <= alpha.
Ended(F) == F.moves = <<>> \/ F.i > Len(F.moves) \/ F.cut

\* What the top frame returns: the mate or stalemate score (1048-1055), or
\* maxEval / minEval.
ReturnValue(P, F) ==
  IF F.moves = <<>>
  THEN LET color == IF F.isMaximizing THEN "black" ELSE "white"
           kPos == findKing(GridAt(P.heap, F.boardState), color)
       IN IF isSquareAttacked(kPos.r, kPos.c, color,
                              GridAt(P.heap, F.boardState))
          THEN MateScore(F.isMaximizing, F.depth)
          ELSE 0
  ELSE F.best

\* One round of the loop of the top frame (1058-1106, 1114-1159): the copies,
\* the simulated move, the revocation, and the recursive call.
Visit(P) ==
  LET F == Top(P)
      move == F.moves[F.i]
      color == IF F.isMaximizing THEN "black" ELSE "white"
      g == CopyGrid(P.heap, F.boardState)
      c == CopyRights(g.heap, F.castleR)
      before == GridAt(c.heap, g.ref)
      H1 == WriteGrid(c.heap, g.ref, SimBoard(before, move))
      H2 == WriteRights(H1, c.ref,
                        SimCR(RightsAt(H1, c.ref), before, move, color))
  IN Call([P EXCEPT !.heap = H2], g.ref, F.depth - 1, F.alpha, F.beta,
          ~F.isMaximizing, c.ref, SimEP(move), Len(P.heap),
          SimCR(F.revoked, before, move, color))

\* The top frame returns to its caller; `skipped` records that some loop
\* of the search has ended by its break with moves left untried.
Return(P) ==
  LET F == Top(P)
  IN Deliver([P EXCEPT !.stack = SubSeq(@, 1, Len(@) - 1),
                       !.skipped = @ \/ (F.cut /\ F.i <= Len(F.moves))],
             ReturnValue(P, F), F.base, F.entry,
             Snapshot(P, F.boardState, F.castleR))

\* The body of the scoring loop of fallbackAIMove (1222-1254) and of getHint
\* (205-238) for the move `m`: the copies of the live grid and rights, the
\* simulated move (no revocation is written here) and the call of minimax.
\* fallbackAIMove scores black's moves; getHint those of the side to move.
ScoreMove(P) ==
  LET m == P.rootMove
      mover == IF P.caller = "fallbackAIMove" THEN "black" ELSE P.turn
      g == CopyGrid(P.heap, P.board)
      c == CopyRights(g.heap, P.castlingRights)
      before == GridAt(c.heap, g.ref)
      H == WriteGrid(c.heap, g.ref, SimBoard(before, m))
  IN Call([P EXCEPT !.heap = H, !.phase = "search"], g.ref, P.depth,
          0 - Infinity, Infinity, mover # "black", c.ref, SimEP(m),
          Len(P.heap),
          SimCR(RightsAt(P.heap, P.castlingRights), before, m, mover))

\* The live objects of a position: the rows at 1..8, the grid at 9, the
\* rights records at 10 and 11, castlingRights at 12.
LiveHeap(pos) ==
  [k \in 1..8 |-> pos.board[k - 1]]
    \o <<[r \in Rows |-> r + 1]>>
    \o <<pos.castlingRights.white, pos.castlingRights.black,
         [white |-> 10, black |-> 11]>>

\* The positions are reached from initGame by moves given as pairs of
\* origin and destination squares, each found in getLegalMoves as the click
\* handler finds it and executed as makeMove executes it.
StartPosition ==
  [board |-> InitialBoard, castlingRights |-> AllRights,
   enPassantTarget |-> null, turn |-> "white"]

Found(pos, pair) ==
  SelectSeq(getLegalMoves(pos.board, pos.castlingRights, pos.enPassantTarget,
                          pos.turn),
            LAMBDA m : m.from = Sq(pair[1][1], pair[1][2])
                       /\ m.to = Sq(pair[2][1], pair[2][2]))[1]

Played(pos, pair) ==
  LET move == Found(pos, pair)
  IN [board |-> ExecuteMove(pos.board, pos.turn, move, noChoice),
      castlingRights |->
        UpdateCastlingRights(pos.castlingRights, pos.turn,
                             pos.board[move.from.r][move.from.c], move),
      enPassantTarget |-> NewEnPassantTarget(move),
      turn |-> Other(pos.turn)]


\* The calls examined: the position (the moves played from initGame), the
\* caller, the depth it hands to minimax (config.depth - 1 in
\* fallbackAIMove, 3 in getHint) and the move of the scoring loop.
Mv(f1, r1, f2, r2) == <<At(f1, r1), At(f2, r2)>>

LineOpen == <<Mv("e", 2, "e", 4)>>

LineCastle ==
  <<Mv("e", 2, "e", 4), Mv("e", 7, "e", 5), Mv("g", 1, "f", 3),
    Mv("g", 8, "f", 6), Mv("b", 1, "c", 3), Mv("f", 8, "e", 7),
    Mv("a", 2, "a", 3)>>

\* 1.f3 e5 2.g4: black mates with Qh4.
LineFool == <<Mv("f", 2, "f", 3), Mv("e", 7, "e", 5), Mv("g", 2, "g", 4)>>

\* 1.e4 e5 2.Qh5 Nc6 3.Bc4: after Nf6 white mates with Qxf7.
LineQueenOut ==
  <<Mv("e", 2, "e", 4), Mv("e", 7, "e", 5), Mv("d", 1, "h", 5),
    Mv("b", 8, "c", 6), Mv("f", 1, "c", 4)>>

\* 1.e3 a5 2.Qh5 Ra6 3.Qxa5 h5 4.h4 Rah6 5.Qxc7 f6 6.Qxd7 Kf7 7.Qxb7 Qd3
\* 8.Qxb8 Qh7 9.Qxc8 Kg6: after Qe6 black has no move and is not in check.
LineNoMove ==
  <<Mv("e", 2, "e", 3), Mv("a", 7, "a", 5), Mv("d", 1, "h", 5),
    Mv("a", 8, "a", 6), Mv("h", 5, "a", 5), Mv("h", 7, "h", 5),
    Mv("h", 2, "h", 4), Mv("a", 6, "h", 6), Mv("a", 5, "c", 7),
    Mv("f", 7, "f", 6), Mv("c", 7, "d", 7), Mv("e", 8, "f", 7),
    Mv("d", 7, "b", 7), Mv("d", 8, "d", 3), Mv("b", 7, "b", 8),
    Mv("d", 3, "h", 7), Mv("b", 8, "c", 8), Mv("f", 7, "g", 6)>>

RootCalls ==
  {[line |-> LineOpen, caller |-> "fallbackAIMove", depth |-> 1, root |-> m] :
     m \in {Mv("e", 7, "e", 5), Mv("g", 8, "f", 6)}}
  \cup
  {[line |-> LineCastle, caller |-> "fallbackAIMove", depth |-> 2, root |-> m] :
     m \in {Mv("e", 8, "g", 8), Mv("e", 8, "f", 8), Mv("h", 8, "g", 8),
            Mv("a", 7, "a", 6)}}
  \cup
  {[line |-> <<>>, caller |-> "getHint", depth |-> 3,
    root |-> Mv("e", 2, "e", 4)]}
  \cup
  {[line |-> LineFool, caller |-> "fallbackAIMove", depth |-> d,
    root |-> Mv("d", 8, "h", 4)] : d \in 0..2}
  \cup
  {[line |-> LineQueenOut, caller |-> "fallbackAIMove", depth |-> 2,
    root |-> Mv("g", 8, "f", 6)],
   [line |-> Append(LineQueenOut, Mv("g", 8, "f", 6)), caller |-> "getHint",
    depth |-> 3, root |-> Mv("h", 5, "f", 7)],
   [line |-> LineNoMove, caller |-> "getHint", depth |-> 3,
    root |-> Mv("c", 8, "e", 6)]}

\* The game of call c is about to be played up to its position.
Machine(c) ==
  [fn |-> "minimax", caller |-> c.caller, line |-> c.line, root |-> c.root,
   depth |-> c.depth, phase |-> "game", live |-> StartPosition,
   turn |-> "white", heap |-> <<>>, board |-> 9, castlingRights |-> 12,
   enPassantTarget |-> null, rootMove |-> null, stack |-> <<>>,
   returned |-> [call |-> "none"], score |-> 0, skipped |-> FALSE]

SearchInit ==
  /\ Loaded /\ script = 1
  /\ probe \in {Machine(c) : c \in RootCalls}

\* The next move of the line is played.
SearchPlay ==
  /\ probe.phase = "game"
  /\ probe.line # <<>>
  /\ probe' = [probe EXCEPT !.live = Played(@, Head(probe.line)),
                            !.line = Tail(@)]
  /\ GameUnchanged

\* The caller is entered in the position reached: the live grid and rights
\* are the objects its globals refer to.
SearchEnter ==
  /\ probe.phase = "game"
  /\ probe.line = <<>>
  /\ probe' = [probe EXCEPT !.phase = "caller",
                            !.turn = probe.live.turn,
                            !.heap = LiveHeap(probe.live),
                            !.enPassantTarget = probe.live.enPassantTarget,
                            !.rootMove = Found(probe.live, probe.root)]
  /\ GameUnchanged

SearchScore ==
  /\ probe.phase = "caller"
  /\ probe' = ScoreMove(probe)
  /\ GameUnchanged

SearchVisit ==
  /\ probe.phase = "search"
  /\ ~Ended(Top(probe))
  /\ probe' = Visit(probe)
  /\ GameUnchanged

SearchReturn ==
  /\ probe.phase = "search"
  /\ Ended(Top(probe))
  /\ probe' = Return(probe)
  /\ GameUnchanged

SearchNext ==
  \/ SearchPlay
  \/ SearchEnter
  \/ SearchScore
  \/ SearchVisit
  \/ SearchReturn

SearchSpec == SearchInit /\ [][SearchNext]_vars


(***************************************************************************)
(* Properties of the rules engine and the move executor.                   *)
(***************************************************************************)
Squares == {Sq(r, c) : r \in Rows, c \in Cols}

PieceAt(B, sq) == B[sq.r][sq.c]

\* No king of `color` on the grid B stands on a square isSquareAttacked
\* reports as attacked.
KingNotAttacked(B, color) ==
  \A sq \in Squares :
    PieceAt(B, sq) = <<Prefix(color), "k">>
      => ~isSquareAttacked(sq.r, sq.c, color, B)

\* The promotion choices makeMove can commit the move with: one of the four
\* pieces of the dialogue for a pawn arriving on row 0 or 7, none otherwise.
ChoicesFor(B, move) ==
  IF PieceAt(B, move.from)[2] = "p" /\ (move.to.r = 0 \/ move.to.r = 7)
  THEN {"q", "r", "b", "n"} ELSE {noChoice}

LegalNow == Range(getLegalMoves(board, castlingRights, enPassantTarget, turn))

Kings(B, color) == {sq \in Squares : PieceAt(B, sq) = <<Prefix(color), "k">>}

\* C2: in every reachable state the grid holds exactly one white king and
\* exactly one black king.
OneKingOfEachColour ==
  Cardinality(Kings(board, "white")) = 1 /\ Cardinality(Kings(board, "black")) = 1

\* The pawn of a human-controlled side was moved onto row 0 or row 7 by a
\* click, i.e. by makeMove without a promotion choice.
HumanLastRankMove(h) ==
  /\ h.op = "click" /\ h.move # null
  /\ PieceAt(h.board, h.move.from) # null
  /\ PieceAt(h.board, h.move.from)[2] = "p"
  /\ (h.move.to.r = 0 \/ h.move.to.r = 7)
  /\ ~(gameMode = "solo" /\ h.turn = "black")

\* C3: makeMove without a promotion choice, for a human-controlled pawn
\* move onto row 0 or 7, enters pending-promotion holding that move, and
\* entering pending-promotion changes nothing else: grid, side to move,
\* castling rights, en-passant target, both counters and the captured
\* ledger are as before the call.
PromotionHeld ==
  [][/\ HumanLastRankMove(last') => last'.outcome = "pending"
     /\ last'.outcome = "pending" =>
          /\ pendingPromotion' = last'.move
          /\ UNCHANGED <<board, turn, castlingRights, enPassantTarget,
                         halfMoveClock, moveCount, capturedPieces>>]_vars

\* A click has just put the game into pending-promotion.
PromotionIsPending ==
  /\ last.outcome = "pending" /\ last.op = "click"
  /\ pendingPromotion = last.move
  /\ PieceAt(board, last.move.from)[2] = "p"

\* C4: while a promotion is pending no handler other than
\* handlePromotionChoice changes the grid or the side to move (a new game
\* apart), and handlePromotionChoice commits the held move against the
\* position it was generated from and leaves no promotion pending.
OnlyTheChoiceMovesWhilePending ==
  [][/\ (pendingPromotion # null /\ last'.op # "initGame"
           /\ (board' # board \/ turn' # turn))
          => last'.op = "promotion"
     /\ (pendingPromotion # null /\ last'.op = "promotion")
          => /\ last'.outcome = "commit"
             /\ pendingPromotion' = null
             /\ PieceAt(board, pendingPromotion.from) # null
             /\ PieceAt(board, pendingPromotion.from)[1] = Prefix(turn)]_vars

IsCastle(move) == move.special = "castle-ks" \/ move.special = "castle-qs"

\* The column the castling rook comes from / goes to.
Corner(move) == IF move.special = "castle-ks" THEN 7 ELSE 0

PassedOver(move) == IF move.special = "castle-ks" THEN 5 ELSE 3

\* C5: after makeMove has committed a castle, a rook of the mover's colour
\* stands on the square the king passed over (column 5 resp. 3 of the
\* king's row) and the corner it came from (column 7 resp. 0) is empty.
CastleBringsTheRook ==
  (last.outcome = "commit" /\ IsCastle(last.move)) =>
    /\ board[last.move.from.r][PassedOver(last.move)]
         = <<PieceAt(last.board, last.move.from)[1], "r">>
    /\ board[last.move.from.r][Corner(last.move)] = null

Revokes(h, side, wing) ==
  /\ h.outcome = "commit"
  /\ PieceAt(h.board, h.move.from)[1] = Prefix(side)
  /\ \/ PieceAt(h.board, h.move.from)[2] = "k"
     \/ /\ PieceAt(h.board, h.move.from)[2] = "r"
        /\ h.move.from.c = (IF wing = "kingSide" THEN 7 ELSE 0)

\* C7: within one game a castling right that is false never becomes true
\* again, and a right becomes false exactly when makeMove commits a king
\* move of that side or a rook move of that side from its column.
RightsRevokedExactly ==
  IF last.op = "initGame" THEN castlingRights = AllRights
  ELSE \A side \in {"white", "black"} : \A wing \in {"kingSide", "queenSide"} :
         castlingRights[side][wing]
           = (last.castlingRights[side][wing] /\ ~Revokes(last, side, wing))

\* The committed move h.move was a pawn's double push.
DoublePush(h) ==
  /\ PieceAt(h.board, h.move.from)[2] = "p"
  /\ h.move.from.c = h.move.to.c
  /\ (h.move.to.r - h.move.from.r = 2 \/ h.move.from.r - h.move.to.r = 2)

\* C8: after every committed move the en-passant target is the square
\* passed over when the move was a pawn double push and absent otherwise;
\* and whenever the target is set it is an empty square on row 2 or 5 and
\* the square directly beyond it holds a pawn of the side not to move.
EnPassantTargetShape ==
  /\ last.outcome = "commit" =>
       enPassantTarget
         = (IF DoublePush(last)
            THEN Sq((last.move.from.r + last.move.to.r) \div 2, last.move.from.c)
            ELSE null)
  /\ enPassantTarget # null =>
       /\ PieceAt(board, enPassantTarget) = null
       /\ enPassantTarget.r \in {2, 5}
       /\ board[IF enPassantTarget.r = 2 THEN 3 ELSE 4][enPassantTarget.c]
            = <<Prefix(Other(turn)), "p">>

\* C9: an en-passant move is generated only for a pawn of the side to move
\* standing beside an enemy pawn that has just double-pushed (the target is
\* the square that pawn passed over); committing it puts the capturing
\* pawn on the empty target square, removes exactly that enemy pawn from
\* (origin row, destination column) and changes no other square.
EnPassantBesideDoublePush ==
  \A move \in LegalNow :
    move.special = "enpassant" =>
      /\ PieceAt(board, move.from) = <<Prefix(turn), "p">>
      /\ enPassantTarget = move.to
      /\ PieceAt(board, move.to) = null
      /\ board[move.from.r][move.to.c] = <<Prefix(Other(turn)), "p">>
      /\ board[IF move.to.r = 2 THEN 3 ELSE 4][move.to.c]
           = <<Prefix(Other(turn)), "p">>
      /\ move.from.r = (IF move.to.r = 2 THEN 3 ELSE 4)
      /\ \A sq \in Squares :
           PieceAt(ExecuteMove(board, turn, move, noChoice), sq)
             = (IF sq = move.to THEN <<Prefix(turn), "p">>
                ELSE IF sq = move.from \/ sq = Sq(move.from.r, move.to.c)
                     THEN null
                     ELSE PieceAt(board, sq))

\* C10: a committed move changes the type of the moved piece only when the
\* piece is a pawn arriving on row 0 or 7 and a promotion piece was
\* supplied, and then the new piece has the pawn's colour; after every
\* other committed move the destination holds the piece that left the
\* origin.
PieceKeptUnlessPromoted ==
  last.outcome = "commit" =>
    PieceAt(board, last.move.to)
      = (IF /\ PieceAt(last.board, last.move.from)[2] = "p"
            /\ (last.move.to.r = 0 \/ last.move.to.r = 7)
            /\ last.promotionChoice # noChoice
         THEN <<PieceAt(last.board, last.move.from)[1], last.promotionChoice>>
         ELSE PieceAt(last.board, last.move.from))


(***************************************************************************)
(* Properties of the counters, the outcome classification and the input    *)
(* handlers.                                                               *)
(***************************************************************************)
\* The full-move field boardToFEN writes (108): Math.max(1, moveCount).
FullMoveNumber(count) == Max(1, count)

\* The colour of the piece the committed move h.move moved.
Mover(h) == PieceAt(h.board, h.move.from)[1]

\* C11: the full-move counter is 1 after initGame, and a committed move
\* increments it (and the full-move number boardToFEN writes) exactly when
\* the move was made by black.
FullMoveCountsBlackMoves ==
  /\ last.op = "initGame" => moveCount = 1
  /\ last.outcome = "commit" =>
       /\ moveCount = last.moveCount + (IF Mover(last) = "b" THEN 1 ELSE 0)
       /\ FullMoveNumber(moveCount)
            = FullMoveNumber(last.moveCount)
              + (IF Mover(last) = "b" THEN 1 ELSE 0)

PieceCount(B) == Cardinality({sq \in Squares : PieceAt(B, sq) # null})

\* C12: the half-move clock is 0 after initGame; after a committed move it is
\* 0 if the move was a pawn move or took a piece off the board (en passant
\* included) and otherwise its previous value plus 1.
HalfMoveClockRule ==
  /\ last.op = "initGame" => halfMoveClock = 0
  /\ last.outcome = "commit" =>
       halfMoveClock
         = (IF \/ PieceAt(last.board, last.move.from)[2] = "p"
               \/ PieceCount(board) < PieceCount(last.board)
            THEN 0 ELSE last.halfMoveClock + 1)

\* A capture by a piece that is no pawn reset the clock, and a move before
\* that had been counted.
ClockResetByCapture ==
  /\ last.outcome = "commit"
  /\ PieceAt(last.board, last.move.from)[2] # "p"
  /\ PieceCount(board) < PieceCount(last.board)
  /\ halfMoveClock = 0

\* Every move committed so far has had its animation callback run.
MovesCompleted == \A i \in 1..Len(timers) : timers[i] # "anim"

\* C13: once the committed moves have completed, a side to move without a
\* legal move means the game is marked over and classified checkmate when
\* that side's king is attacked and stalemate when it is not; a side to move
\* with a legal move means the game is not marked over.
OutcomeClassified ==
  MovesCompleted =>
    IF LegalNow = {}
    THEN /\ isGameOver
         /\ status = (IF KingNotAttacked(board, turn)
                      THEN "stalemate" ELSE "checkmate")
    ELSE ~isGameOver

\* The handler recorded in h left the board, the side to move, the rights,
\* the en-passant target, the counters and the captured ledger as they were.
GameUntouched(h) ==
  /\ board = h.board
  /\ turn = h.turn
  /\ castlingRights = h.castlingRights
  /\ enPassantTarget = h.enPassantTarget
  /\ moveCount = h.moveCount
  /\ halfMoveClock = h.halfMoveClock
  /\ capturedPieces = h.capturedPieces

\* The origin/destination pair the handler recorded in h was asked for:
\* the pair it refused, or else that of the move it passed to makeMove.
Asked(h) == IF h.request # null THEN h.request ELSE h.move

\* The pair asked for is that of a move getLegalMoves returned for the side
\* to move in the state the handler started from.
PairWasLegal(h) ==
  \E m \in Range(getLegalMoves(h.board, h.castlingRights, h.enPassantTarget,
                               h.turn)) :
    m.from = Asked(h).from /\ m.to = Asked(h).to

\* C14: a click that asks for a move whose origin/destination pair is not
\* in getLegalMoves for the side to move neither commits nor holds a move
\* and leaves board, side to move, rights, en-passant target, counters and
\* ledger unchanged; so does every drop.
IllegalRequestRejected ==
  /\ (last.op = "click" /\ Asked(last) # null /\ ~PairWasLegal(last)) =>
       last.outcome = "none" /\ GameUntouched(last)
  /\ last.op = "drop" => GameUntouched(last)

\* A second click has asked for a move that is not legal and was refused.
RequestRefused ==
  /\ last.op = "click"
  /\ last.request # null
  /\ ~PairWasLegal(last)
  /\ last.outcome = "none"
  /\ GameUntouched(last)

\* C15: a promotion choice made while no promotion is pending ends in an
\* error raised to the caller, and leaves the game state unchanged.
ChoiceWithoutPendingIsAnError ==
  (last.op = "promotion" /\ last.pendingPromotion = null) =>
    last.outcome = "throw" /\ GameUntouched(last)


(***************************************************************************)
(* Properties of the computer's move decision and the oracle boundary.     *)
(***************************************************************************)
\* C18: at most one askStockfish promise is waiting at any moment.
AtMostOneQueryOutstanding == Len(queries) <= 1

\* The committed move h.move brought a pawn to row 0 or 7.
PawnToLastRank(h) ==
  /\ PieceAt(h.board, h.move.from)[2] = "p"
  /\ (h.move.to.r = 0 \/ h.move.to.r = 7)

\* C19: a move decided by makeAIMove or fallbackAIMove is never held for a
\* promotion choice: pendingPromotion is not set by it, and a pawn it brings
\* to the last rank is committed at once as a piece.
ComputerNeverPends ==
  last.op \in {"oracle", "fallback"} =>
    /\ last.outcome # "pending"
    /\ pendingPromotion = last.pendingPromotion
    /\ (last.outcome = "commit" /\ PawnToLastRank(last)) =>
         PieceAt(board, last.move.to)[2] # "p"

\* The moves getLegalMoves("black") returned in the state handler h started
\* from.
BlackMovesBefore(h) ==
  Range(getLegalMoves(h.board, h.castlingRights, h.enPassantTarget, "black"))

\* C20: when black has a legal move fallbackAIMove commits exactly one move,
\* a member of getLegalMoves("black") for the position it started from;
\* when black has none it commits nothing.
FallbackCommitsOneLegalMove ==
  last.op = "fallback" =>
    IF BlackMovesBefore(last) # {}
    THEN /\ last.outcome = "commit"
         /\ last.move \in BlackMovesBefore(last)
         /\ board = ExecuteMove(last.board, last.turn, last.move,
                                last.promotionChoice)
    ELSE last.outcome = "none" /\ GameUntouched(last)

\* C16: makeAIMove asks the oracle only when it is in use and ready and
\* otherwise decides by fallbackAIMove, as it does when the query times out
\* or the reply names no legal black move; every decision, by the oracle's
\* reply or by the search, ends with one legal black move committed and
\* with no error thrown.
ComputerDecisionCommitsOneMove ==
  /\ last.op = "makeAIMove" => useStockfish /\ stockfishReady
  /\ last.op \in {"oracle", "fallback"} =>
       /\ last.outcome # "throw"
       /\ BlackMovesBefore(last) # {} =>
            last.outcome = "commit" /\ last.move \in BlackMovesBefore(last)

\* Solo mode, black to move and able to move, the game not marked over.
BlackToMoveInSolo ==
  /\ gameMode = "solo"
  /\ turn = "black"
  /\ ~isGameOver
  /\ Len(getLegalMoves(board, castlingRights, enPassantTarget, "black")) > 0

\* A black move has just been committed.
BlackHasMoved == last.outcome = "commit" /\ Mover(last) = "b"

\* A black move has just been committed, or a new game has been started.
BlackMoveCommitted == BlackHasMoved \/ last.op = "initGame"

PlacesOf(sorted, m) == {k \in 0..(Len(sorted) - 1) : sorted[k + 1].move = m}

BestScore(scoredMoves) ==
  CHOOSE x \in {scoredMoves[i].score : i \in 1..Len(scoredMoves)} :
    \A i \in 1..Len(scoredMoves) : scoredMoves[i].score <= x

\* C21: in fallbackAIMove, with blunder rate 0 the chosen move has a score
\* within 10 of the maximum score over all moves, for every random draw;
\* with blunder rate 1 and at least two moves the chosen move stands at
\* index floor(n/2) or later in the list sorted by descending score.
SelectionFollowsBlunderRate ==
  (probe.fn = "fallbackAIMove" /\ probe.chosenMove # 0) =>
    LET n == Len(probe.scoredMoves)
        chosen == probe.scoredMoves[probe.chosenMove]
    IN /\ probe.config.blunderRate = 0 =>
            chosen.score >= BestScore(probe.scoredMoves) - 10
       /\ (probe.config.blunderRate = 100 /\ n >= 2) =>
            \A k \in PlacesOf(probe.sorted, probe.chosenMove) : k >= n \div 2

\* With blunder rate 1 a move of the lower half has been chosen although a
\* better one was there, and with blunder rate 0 a move tied within 10 of
\* the best but not the best itself.
LowerHalfChosen ==
  /\ probe.fn = "fallbackAIMove" /\ probe.chosenMove # 0
  /\ Len(probe.scoredMoves) = MaxMoves
  /\ \/ /\ probe.config.blunderRate = 100
        /\ probe.scoredMoves[probe.chosenMove].score
             < BestScore(probe.scoredMoves) - 10
     \/ /\ probe.config.blunderRate = 0
        /\ probe.scoredMoves[probe.chosenMove].score
             < BestScore(probe.scoredMoves)

\* The pieces of colour prefix c standing on grid B.
OnBoard(B, c) == {sq \in Squares : PieceAt(B, sq) # null /\ PieceAt(B, sq)[1] = c}

\* C22: every piece a committed move removes from the board joins the
\* ledger list of its own colour and nothing else enters or leaves the
\* ledger during a game, so for each colour the pieces of that colour on
\* the board plus the length of that colour's ledger list are 16.
SixteenPerColour ==
  \A c \in {"w", "b"} :
    Cardinality(OnBoard(board, c)) + Len(capturedPieces[c]) = 16

\* A call of minimax is running or has returned to fallbackAIMove / getHint.
Searching == probe.fn = "minimax" /\ probe.phase \in {"search", "done"}

\* The globals refer to the live objects and these hold the live position.
LiveAsBefore ==
  /\ probe.board = 9 /\ probe.castlingRights = 12
  /\ GridAt(probe.heap, probe.board) = probe.live.board
  /\ RightsAt(probe.heap, probe.castlingRights) = probe.live.castlingRights
  /\ probe.enPassantTarget = probe.live.enPassantTarget
  /\ probe.turn = probe.live.turn

\* C23: the search never mutates state it does not own: while minimax runs
\* under fallbackAIMove or getHint, and when it has returned, the live
\* board, castling rights, en-passant target and side to move are as before
\* the call, and the board and rights record passed to any call are, during
\* the call and at its return, as they were passed.
SearchOwnsItsCopies ==
  Searching =>
    /\ LiveAsBefore
    /\ \A k \in 1..Len(probe.stack) :
         LET F == probe.stack[k]
         IN /\ GridAt(probe.heap, F.boardState) = F.entry.boardState
            /\ RightsAt(probe.heap, F.castleR) = F.entry.castleR
    /\ probe.returned.call = "minimax" =>
         probe.returned.entry = probe.returned.exit

\* A call that searched below its own node has returned to a caller that
\* has already tried other branches, and its position is not the caller's.
BranchReturned ==
  /\ Searching /\ probe.phase = "search"
  /\ probe.returned.call = "minimax"
  /\ probe.returned.entry.boardState # Top(probe).entry.boardState
  /\ probe.returned.entry.castleR # Top(probe).entry.castleR
  /\ Top(probe).i > 2
  /\ Top(probe).depth > 1

\* C24: from the position initGame sets up getLegalMoves('white') returns
\* exactly 20 moves, and after any one of them is committed
\* getLegalMoves('black') returns exactly 20 moves.
TwentyMovesEach ==
  probe.fn = "getLegalMoves" =>
    /\ probe.ply = 0 =>
         Len(getLegalMoves(board, castlingRights, enPassantTarget, "white")) = 20
    /\ probe.ply = 1 =>
         /\ last.outcome = "commit" /\ turn = "black"
         /\ Len(getLegalMoves(board, castlingRights, enPassantTarget, "black")) = 20

\* White has committed a first move that left an en-passant target, and
\* black has 20 moves.
TwentyReplies ==
  /\ probe.fn = "getLegalMoves" /\ probe.ply = 1
  /\ last.outcome = "commit" /\ enPassantTarget # null
  /\ Len(getLegalMoves(board, castlingRights, enPassantTarget, "black")) = 20


(***************************************************************************)
(* The position line (boardToFEN, 64-111) as the sequence of its           *)
(* characters, and the reading of a position line.                         *)
(***************************************************************************)
DigitChar(d) ==
  CASE d = 0 -> "0" [] d = 1 -> "1" [] d = 2 -> "2" [] d = 3 -> "3"
    [] d = 4 -> "4" [] d = 5 -> "5" [] d = 6 -> "6" [] d = 7 -> "7"
    [] d = 8 -> "8" [] OTHER -> "9"

\* fen += n for a number n that is not negative: its decimal digits.
RECURSIVE Decimal(_)
Decimal(n) ==
  IF n < 10 THEN <<DigitChar(n)>>
  ELSE Append(Decimal(n \div 10), DigitChar(n % 10))

\* ch.toUpperCase() for the letters of pieceMap.
Upper(ch) ==
  CASE ch = "p" -> "P" [] ch = "r" -> "R" [] ch = "n" -> "N"
    [] ch = "b" -> "B" [] ch = "q" -> "Q" [] OTHER -> "K"

PieceChar(piece) == IF piece[1] = "w" THEN Upper(piece[2]) ELSE piece[2]

\* A row written without the empty squares after its last piece;
\* PositionLineReadsBack must fail with it in place of RowFEN.
RowWithoutTrailingCount(B, r, c, emptyCount) ==
  LET cells == [k \in 1..8 |-> B[r][k - 1]]
      Run(k) == Cardinality({j \in 1..(k - 1) : \A i \in j..(k - 1) : cells[i] = null})
      Piece(k) == IF cells[k] = null THEN <<>>
                  ELSE (IF Run(k) > 0 THEN Decimal(Run(k)) ELSE <<>>)
                         \o <<PieceChar(cells[k])>>
  IN Piece(1) \o Piece(2) \o Piece(3) \o Piece(4) \o Piece(5) \o Piece(6)
       \o Piece(7) \o Piece(8)

\* The inner loop of boardToFEN (68-82) from column c of row r on, with
\* emptyCount empty squares counted so far.
RECURSIVE RowFEN(_, _, _, _)
RowFEN(B, r, c, emptyCount) ==
  IF c = 8
  THEN IF emptyCount > 0 THEN Decimal(emptyCount) ELSE <<>>
  ELSE IF B[r][c] = null
       THEN RowFEN(B, r, c + 1, emptyCount + 1)
       ELSE (IF emptyCount > 0 THEN Decimal(emptyCount) ELSE <<>>)
              \o <<PieceChar(B[r][c])>> \o RowFEN(B, r, c + 1, 0)

\* The outer loop (66-84) from row r on.
RECURSIVE PlacementFEN(_, _)
PlacementFEN(B, r) ==
  RowFEN(B, r, 0, 0)
    \o (IF r < 7 THEN <<"/">> \o PlacementFEN(B, r + 1) ELSE <<>>)

\* Castling availability (89-95).
CastlingFEN(CR) ==
  LET castling == (IF CR.white.kingSide THEN <<"K">> ELSE <<>>)
                    \o (IF CR.white.queenSide THEN <<"Q">> ELSE <<>>)
                    \o (IF CR.black.kingSide THEN <<"k">> ELSE <<>>)
                    \o (IF CR.black.queenSide THEN <<"q">> ELSE <<>>)
  IN IF castling = <<>> THEN <<"-">> ELSE castling

\* String.fromCharCode(97 + c)
FileChar(c) ==
  CASE c = 0 -> "a" [] c = 1 -> "b" [] c = 2 -> "c" [] c = 3 -> "d"
    [] c = 4 -> "e" [] c = 5 -> "f" [] c = 6 -> "g" [] OTHER -> "h"

\* En passant target square (97-104).
EnPassantFEN(EP) ==
  IF EP # null THEN <<FileChar(EP.c)>> \o Decimal(8 - EP.r) ELSE <<"-">>

\* boardToFEN() in state S.
boardToFEN(S) ==
  PlacementFEN(S.board, 0)
    \o <<" ", IF S.turn = "white" THEN "w" ELSE "b", " ">>
    \o CastlingFEN(S.castlingRights)
    \o <<" ">> \o EnPassantFEN(S.enPassantTarget)
    \o <<" ">> \o Decimal(S.halfMoveClock)
    \o <<" ">> \o Decimal(FullMoveNumber(S.moveCount))

\* Reading a position line: the six fields between blanks, the rows between
\* slashes, a digit for that many empty squares, a letter for a piece
\* (upper case white), the flags KQkq, the en-passant square as file and
\* rank, and the two numbers.
Split(chars, sep) ==
  LET n == Len(chars)
      cut == {0} \cup {i \in 1..n : chars[i] = sep} \cup {n + 1}
      Nth(k) == CHOOSE i \in cut : Cardinality({j \in cut : j < i}) = k - 1
  IN [k \in 1..(Cardinality(cut) - 1) |->
        SubSeq(chars, Nth(k) + 1, Nth(k + 1) - 1)]

RECURSIVE ReadNumber(_, _, _)
ReadNumber(chars, i, acc) ==
  IF i > Len(chars) THEN acc
  ELSE ReadNumber(chars, i + 1, acc * 10 + parseInt(chars[i]))

ReadPiece(ch) ==
  CASE ch = "P" -> <<"w", "p">> [] ch = "R" -> <<"w", "r">>
    [] ch = "N" -> <<"w", "n">> [] ch = "B" -> <<"w", "b">>
    [] ch = "Q" -> <<"w", "q">> [] ch = "K" -> <<"w", "k">>
    [] ch = "p" -> <<"b", "p">> [] ch = "r" -> <<"b", "r">>
    [] ch = "n" -> <<"b", "n">> [] ch = "b" -> <<"b", "b">>
    [] ch = "q" -> <<"b", "q">> [] ch = "k" -> <<"b", "k">>
    [] OTHER -> <<"?">>

RECURSIVE ReadRow(_, _, _)
ReadRow(chars, i, cells) ==
  IF i > Len(chars) THEN cells
  ELSE IF parseInt(chars[i]) # NaN
       THEN ReadRow(chars, i + 1,
                    cells \o [k \in 1..parseInt(chars[i]) |-> null])
       ELSE ReadRow(chars, i + 1, Append(cells, ReadPiece(chars[i])))

ReadPlacement(chars) ==
  LET rows == Split(chars, "/")
  IN [r \in Rows |->
        [c \in Cols |->
           IF r + 1 <= Len(rows) /\ c + 1 <= Len(ReadRow(rows[r + 1], 1, <<>>))
           THEN ReadRow(rows[r + 1], 1, <<>>)[c + 1]
           ELSE <<"?">>]]

ReadCastling(chars) ==
  [white |-> [kingSide |-> "K" \in Range(chars),
              queenSide |-> "Q" \in Range(chars)],
   black |-> [kingSide |-> "k" \in Range(chars),
              queenSide |-> "q" \in Range(chars)]]

ReadEnPassant(chars) ==
  IF chars = <<"-">> THEN null
  ELSE Sq(8 - ReadNumber(Tail(chars), 1, 0), FileOf(chars[1]))

ReadFEN(fen) ==
  LET f == Split(fen, " ")
  IN [board |-> ReadPlacement(f[1]),
      turn |-> IF f[2] = <<"w">> THEN "white" ELSE "black",
      castlingRights |-> ReadCastling(f[3]),
      enPassantTarget |-> ReadEnPassant(f[4]),
      halfMoveClock |-> ReadNumber(f[5], 1, 0),
      moveCount |-> ReadNumber(f[6], 1, 0)]

\* What a position line stands for in state S.
Position(S) ==
  [board |-> S.board, turn |-> S.turn, castlingRights |-> S.castlingRights,
   enPassantTarget |-> S.enPassantTarget, halfMoveClock |-> S.halfMoveClock,
   moveCount |-> S.moveCount]

\* C25: in every reachable state the line boardToFEN writes, read back,
\* gives the placement, side to move, castling rights, en-passant target,
\* half-move clock and full-move counter of the state it was written from;
\* so two states that differ in any of these never give the same line.
PositionLineReadsBack == ReadFEN(boardToFEN(G)) = Position(G)

\* A line with an en-passant square and a lost castling right, written
\* after the second move of white, has been read back.
LineWithEveryField ==
  /\ enPassantTarget # null
  /\ castlingRights # AllRights
  /\ moveCount > 2
  /\ ReadFEN(boardToFEN(G)) = Position(G)


(***************************************************************************)
(* Properties of the interleaving of input, timers and oracle replies.     *)
(***************************************************************************)
\* C26: every committed move moves a piece of the colour whose turn it is
\* and hands the turn to the other colour, under every interleaving of
\* input, the makeAIMove timer, oracle replies and new games; so
\* consecutive committed moves are made by opposite colours.
MoverHasTheTurn ==
  last.outcome = "commit" =>
    /\ Mover(last) = Prefix(last.turn)
    /\ turn = Other(last.turn)

\* C27: in solo mode the human controls only white: a square click or a
\* drop commits a move only when white is to move, and the piece it moves
\* is white; a click during the delay before the computer moves, or while
\* an oracle query is outstanding, moves no black piece.
HumanMovesOnlyWhite ==
  (gameMode = "solo" /\ last.op \in {"click", "drop"}
     /\ last.outcome = "commit") =>
    last.turn = "white" /\ Mover(last) = "w"

\* C28: once the game has been marked over, the board, the side to move
\* and the captured ledger do not change until initGame is called: no
\* click, promotion choice, scheduled computer move or late oracle reply
\* commits a move after game over.
NothingMovesAfterGameOver ==
  [][(isGameOver /\ last'.op # "initGame") =>
       /\ UNCHANGED <<board, turn, capturedPieces>>
       /\ last'.outcome # "commit"]_vars

\* C29: a waiting askStockfish promise is resolved only by the bestmove
\* line that answers its own request: no go command sent before its own
\* was still unanswered when the line that resolved it arrived, be it the
\* go of a query that had timed out or that of another waiting query.
ResolvedByOwnReply ==
  \A i \in 1..Len(microtasks) : microtasks[i].own


(***************************************************************************)
(* Properties of the positions the search examines.                        *)
(***************************************************************************)
\* The rights record of frame F is the one the revocation rule gives when
\* applied to every simulated move from the live position on.
RightsFollowTheMoves(F) == RightsAt(probe.heap, F.castleR) = F.revoked

\* Every castle move gathered in frame F starts from column 4 of the back
\* rank of the side to act, where that side's king stands.
CastlesFromHome(F) ==
  \A i \in 1..Len(F.moves) :
    IsCastle(F.moves[i]) =>
      /\ F.moves[i].from.c = 4
      /\ F.moves[i].from.r = (IF F.isMaximizing THEN 0 ELSE 7)

\* Every move gathered in frame F starts and ends inside the grid.
MovesInsideGrid(F) ==
  \A i \in 1..Len(F.moves) :
    /\ isValidSquare(F.moves[i].from.r, F.moves[i].from.c)
    /\ isValidSquare(F.moves[i].to.r, F.moves[i].to.c)

\* C30: in every position examined by the search started from
\* fallbackAIMove or getHint the rights record is the one obtained by
\* applying the revocation rule to every simulated move including the root
\* move, a castle move is generated only when that side's king stands on
\* column 4 of its back rank, and every generated move has its origin and
\* destination inside the 8x8 grid.
SearchKeepsTheRights ==
  (probe.fn = "minimax" /\ probe.phase = "search") =>
    \A k \in 1..Len(probe.stack) :
      /\ RightsFollowTheMoves(probe.stack[k])
      /\ CastlesFromHome(probe.stack[k])
      /\ MovesInsideGrid(probe.stack[k])


(***************************************************************************)
(* Properties of the value of the search.                                  *)
(***************************************************************************)
\* The max/min recursion of minimax with the test `beta <= alpha` removed:
\* every move of every node is tried.
RECURSIVE Exhaustive(_, _, _, _, _)

\* The largest and the smallest of a non-empty set of scores.
Largest(scores) == CHOOSE v \in scores : \A w \in scores : v >= w

Smallest(scores) == CHOOSE v \in scores : \A w \in scores : v <= w

\* The scores of the nodes the moves of a node lead to.
ChildScores(boardState, depth, isMaximizing, castleR, moves) ==
  {Exhaustive(SimBoard(boardState, moves[i]), depth - 1, ~isMaximizing,
              SimCR(castleR, boardState, moves[i],
                    IF isMaximizing THEN "black" ELSE "white"),
              SimEP(moves[i])) : i \in 1..Len(moves)}

Exhaustive(boardState, depth, isMaximizing, castleR, epTarget) ==
  IF depth = 0 THEN evaluateBoard(boardState)
  ELSE LET color == IF isMaximizing THEN "black" ELSE "white"
           moves == getLegalMoves(boardState, castleR, epTarget, color)
       IN IF Len(moves) = 0
          THEN LET kPos == findKing(boardState, color)
               IN IF isSquareAttacked(kPos.r, kPos.c, color, boardState)
                  THEN MateScore(isMaximizing, depth)
                  ELSE 0
          ELSE IF isMaximizing
               THEN Largest(ChildScores(boardState, depth, isMaximizing,
                                        castleR, moves))
               ELSE Smallest(ChildScores(boardState, depth, isMaximizing,
                                         castleR, moves))

\* The node minimax is called on by the scoring loop of the caller.
RootNode ==
  LET mover == IF probe.caller = "fallbackAIMove" THEN "black"
               ELSE probe.live.turn
  IN [boardState |-> SimBoard(probe.live.board, probe.rootMove),
      depth |-> probe.depth, isMaximizing |-> mover # "black",
      castleR |-> probe.live.castlingRights,
      epTarget |-> SimEP(probe.rootMove)]

\* C31: for every position and depth, minimax called with alpha = -Infinity
\* and beta = +Infinity returns the same score as the same max/min
\* recursion with the cut-off removed: the score fallbackAIMove or getHint
\* receives for its root move is the score of the exhaustive recursion.
PruningKeepsTheValue ==
  (probe.fn = "minimax" /\ probe.phase = "done") =>
    probe.score = Exhaustive(RootNode.boardState, RootNode.depth,
                             RootNode.isMaximizing, RootNode.castleR,
                             RootNode.epTarget)

\* A search in which a loop was left by its break has returned its score.
ScoreAfterCutOff ==
  probe.fn = "minimax" /\ probe.phase = "done" /\ probe.skipped


(***************************************************************************)
(* Properties of the scores of nodes without a move.                       *)
(***************************************************************************)
\* The node of the call of minimax that has just returned: the one the
\* caller made for its root move, or the one the loop of the frame now on
\* top made for the move it has just tried.
ReturnedNode ==
  IF probe.stack = <<>> THEN RootNode
  ELSE LET F == Top(probe)
           move == F.moves[F.i - 1]
       IN [boardState |-> probe.returned.entry.boardState,
           depth |-> F.depth - 1, isMaximizing |-> ~F.isMaximizing,
           castleR |-> probe.returned.entry.castleR,
           epTarget |-> SimEP(move)]

JustReturned ==
  /\ probe.fn = "minimax" /\ probe.phase \in {"search", "done"}
  /\ probe.returned.call = "minimax"

SideOf(n) == IF n.isMaximizing THEN "black" ELSE "white"

\* The side to act of node n has no legal move.
NoMove(n) ==
  getLegalMoves(n.boardState, n.castleR, n.epTarget, SideOf(n)) = <<>>

\* A king of the side to act of node n stands on an attacked square.
KingAttacked(n) ==
  \E r \in Rows, c \in Cols :
    /\ n.boardState[r][c] = <<Prefix(SideOf(n)), "k">>
    /\ isSquareAttacked(r, c, SideOf(n), n.boardState)

\* The largest depth minimax is called with (getHint).
HintDepth == 3

\* No value of evaluateBoard is beyond this one on a grid of at most 32
\* pieces with at most one king of each colour: the king and thirty queens
\* of one colour, every piece counted with the largest entry of the tables.
TableBound ==
  Largest({PST[t][r][c] : t \in DOMAIN PIECE_VALUES, r \in 1..8, c \in 1..8}
            \cup {0 - PST[t][r][c] :
                    t \in DOMAIN PIECE_VALUES, r \in 1..8, c \in 1..8})

EvalBound ==
  (PIECE_VALUES.k + TableBound) + 30 * (PIECE_VALUES.q + TableBound)
    + TableBound

\* v is a mate score for the mated side of node n: the score of minimax for
\* a mate at the remaining depth of n, strictly better for the mating side
\* than the score of a mate found with less remaining depth, and beyond any
\* value of evaluateBoard.
IsMateScore(v, n) ==
  /\ v = MateScore(n.isMaximizing, n.depth)
  /\ \A d \in 0..HintDepth :
       d < n.depth =>
         IF n.isMaximizing THEN v < MateScore(n.isMaximizing, d)
         ELSE v > MateScore(n.isMaximizing, d)
  /\ IF n.isMaximizing THEN v < 0 - EvalBound ELSE v > EvalBound

\* The score a node without a move has returned: 0 or a mate score.
StuckScore(n) ==
  IF KingAttacked(n) THEN IsMateScore(probe.returned.value, n)
  ELSE probe.returned.value = 0

\* A call at depth 0 has returned a value of evaluateBoard within the bound.
WithinEvalBound(n) ==
  n.depth = 0 =>
    /\ probe.returned.value = evaluateBoard(n.boardState)
    /\ probe.returned.value <= EvalBound
    /\ probe.returned.value >= 0 - EvalBound

\* C32 as stated: in minimax a node whose side to act has no legal move
\* returns 0 when that side's king is not attacked and a mate score when it
\* is; the faster mate is strictly better for the mating side and every
\* mate score is beyond any value evaluateBoard can return.
EveryStuckNodeScored ==
  JustReturned =>
    /\ NoMove(ReturnedNode) => StuckScore(ReturnedNode)
    /\ WithinEvalBound(ReturnedNode)

\* C32: the same for every node with a remaining depth of at least 1; a
\* node at depth 0 returns the value of evaluateBoard whether or not its
\* side to act has a move.
StuckNodeScoredAboveDepthZero ==
  JustReturned =>
    /\ (ReturnedNode.depth > 0 /\ NoMove(ReturnedNode)) =>
         StuckScore(ReturnedNode)
    /\ WithinEvalBound(ReturnedNode)

\* A call made by a loop of minimax on a node with remaining depth has
\* returned, and the side to act of the node had no move and was in check.
MateScored ==
  /\ JustReturned
  /\ probe.stack # <<>>
  /\ ReturnedNode.depth > 0
  /\ NoMove(ReturnedNode)
  /\ KingAttacked(ReturnedNode)

=============================================================================
